---- MODULE Spec2Model ----
(***************************************************************************)
(* Model of four components of the repository:                             *)
(*   - the Score Merger, _merge_scores (apps/serve/main.py)                *)
(*   - the Catalog Normalizer, clean_products and its helpers              *)
(*     (apps/serve/scripts/clean_products.py)                              *)
(*   - the 3D code generator, Claude3DGenerator                            *)
(*     (apps/serve/services/claude_3d_generator.py)                        *)
(*   - the training jobs of the NeRF API server                            *)
(*     (artspace-interior/artspace-ui/api_server.py)                       *)
(*                                                                         *)
(* Numbers.  Scores are Python floats.  A float is modelled as a record    *)
(* [k, v]: k = "num" with v the value in hundredths (exact arithmetic, no  *)
(* binary rounding), or k = "nan" / "inf" / "ninf" for the IEEE special    *)
(* values.  Python's None is NoneV.                                        *)
(***************************************************************************)
EXTENDS Integers, Sequences, FiniteSets, TLC

\* ------------------------------------------------------------------ bounds
\* Longest candidate list handed to _merge_scores.
MaxCand == 3
\* Longest batch handed to clean_products.
MaxBatch == 3
\* Last clock second in which POST /api/train is served (seconds 0..MaxClock).
MaxClock == 1
\* Number of POST /api/train requests that start a training thread.
MaxRequests == 2

\* --------------------------------------------------------------- constants
\* alpha = 0.7, the default blend weight of _merge_scores, in tenths.
Alpha == 7

VARIABLES
    candidates,     \* _merge_scores: the candidate list (argument)
    claude_scores,  \* _merge_scores: id -> entry of the LLM (argument)
    merged,         \* _merge_scores: the returned list
    mpc,            \* _merge_scores: "start", "returned" or "raised"
    raisedAt,       \* _merge_scores: index of the candidate whose handling raised, else 0
    raw_record,     \* transform_item: the raw record (argument)
    transformed,    \* transform_item: the TransformResult returned
    gpc,            \* transform_item: "idle", "start" or "returned"
    raw_shape,      \* clean_products: the JSON type of the argument raw_items
    raw_items,      \* clean_products: the batch (argument); of a mapping, its values
    idx,            \* clean_products: number of records the loop has handled
    cleaned,        \* clean_products: the items emitted so far
    rejects,        \* clean_products: the Counter of reasons
    previous,       \* <<>>, or <<cleaned>> of the call whose output this call is given
    seen_keys,      \* clean_products: dedup keys of the emitted items
    seen_ids,       \* clean_products: ids of the emitted items
    emitted_from,   \* history: emitted_from[k] is the index in raw_items of cleaned[k]
    cpc,            \* clean_products: "idle", "loop", "returned" or "raised"
    api_key,        \* Claude3DGenerator: the key given to __init__ ("" for none)
    anthropic,      \* Claude3DGenerator: the package is "missing", "broken" or "ok"
    client,         \* Claude3DGenerator: self.client is set
    furniture_type, \* generate_furniture_code: the furniture type (argument)
    api_outcome,    \* generate_furniture_code: what the API call did, "<no call>" for none
    generated,      \* generate_furniture_code: the code returned
    xpc,            \* Claude3DGenerator: "idle", "new", "ready", "returned" or "raised"
    clock,          \* api_server: int(time.time()) as last read
    training_jobs,  \* api_server: job id -> record of the job
    threads,        \* api_server: the training threads, [job_id, session_id, pc] each
    answered,       \* history: the job ids that POST /api/train has answered with
    reply           \* api_server: the last answer of a request handler

mergeVars == <<candidates, claude_scores, merged, mpc, raisedAt>>
gateVars == <<raw_record, transformed, gpc>>
cleanVars ==
    <<raw_shape, raw_items, idx, cleaned, rejects, previous, seen_keys, seen_ids, emitted_from, cpc>>
genVars == <<api_key, anthropic, client, furniture_type, api_outcome, generated, xpc>>
trainVars == <<clock, training_jobs, threads, answered, reply>>
vars == <<mergeVars, gateVars, cleanVars, genVars, trainVars>>

\* ------------------------------------------------------------------ floats
Num(v) == [k |-> "num", v |-> v]
NaN == [k |-> "nan", v |-> 0]
PosInf == [k |-> "inf", v |-> 0]
NegInf == [k |-> "ninf", v |-> 0]
NoneV == [k |-> "none", v |-> 0]

\* c * x for a positive constant c.
FScale(c, x) == IF x.k = "num" THEN Num(c * x.v) ELSE x

\* x / 10 (the scale of Alpha); the modelled values keep it exact.
FDiv10(x) == IF x.k = "num" THEN Num(x.v \div 10) ELSE x

\* IEEE addition.
FAdd(x, y) ==
    IF x.k = "nan" \/ y.k = "nan" THEN NaN
    ELSE IF x.k = "num" /\ y.k = "num" THEN Num(x.v + y.v)
    ELSE IF x.k = "num" THEN y
    ELSE IF y.k = "num" THEN x
    ELSE IF x.k = y.k THEN x
    ELSE NaN

\* IEEE x < y: false whenever an operand is NaN.
FLt(x, y) ==
    \/ x.k = "ninf" /\ y.k \in {"num", "inf"}
    \/ x.k = "num" /\ y.k = "inf"
    \/ x.k = "num" /\ y.k = "num" /\ x.v < y.v

\* IEEE x >= y: false whenever an operand is NaN.
FGe(x, y) == x.k # "nan" /\ y.k # "nan" /\ ~FLt(x, y)

\* ------------------------------------------------- JSON values of a score
\* What json.loads can put under an entry's "score" key.
\*   number  a finite JSON number (v in hundredths)
\*   numstr  a string holding a finite number, such as "0.4"
\*   text    a string that is no number, such as "high"
\*   list, mapping   a JSON array / object
\*   nan     the literal NaN or the string "nan"
\*   inf, ninf   Infinity / "inf", -Infinity / "-inf"
\*   bigint  an integer literal beyond the range of a double (10**400)
\*   null    the key is missing or holds null
\*   string  a string given by its characters s, such as "$249.99"
JNumber(v) == [t |-> "number", v |-> v, s |-> ""]
JNumStr(v) == [t |-> "numstr", v |-> v, s |-> ""]
JOther(t) == [t |-> t, v |-> 0, s |-> ""]
JString(s) == [t |-> "string", v |-> 0, s |-> s]
JNull == JOther("null")

\* float(x) of Python: the value, or the exception it raises.
PyFloat(x) ==
    CASE x.t \in {"number", "numstr"} -> [exc |-> "none", val |-> Num(x.v)]
      [] x.t = "nan" -> [exc |-> "none", val |-> NaN]
      [] x.t = "inf" -> [exc |-> "none", val |-> PosInf]
      [] x.t = "ninf" -> [exc |-> "none", val |-> NegInf]
      [] x.t = "text" -> [exc |-> "ValueError", val |-> NoneV]
      [] x.t \in {"list", "mapping"} -> [exc |-> "TypeError", val |-> NoneV]
      [] x.t = "bigint" -> [exc |-> "OverflowError", val |-> NoneV]
      [] OTHER -> [exc |-> "TypeError", val |-> NoneV]

\* ------------------------------------------------------------ list.sort
Reverse(s) == [i \in 1..Len(s) |-> s[Len(s) + 1 - i]]

\* The key function of the sort: lambda r: r.score, compared with <.
KeyLt(a, b) == FLt(a.score, b.score)

\* count_run of CPython's list.sort: the last index of the run that starts
\* at 1, ascending (each element not less than the one before) or strictly
\* descending.
RECURSIVE RunEnd(_, _, _)
RunEnd(s, i, desc) ==
    IF i > Len(s) THEN Len(s)
    ELSE IF KeyLt(s[i], s[i - 1]) = desc THEN RunEnd(s, i + 1, desc)
    ELSE i - 1

\* binarysort: the slot of pivot among s[l..r-1], right of its equals.
RECURSIVE BinSearch(_, _, _, _)
BinSearch(s, pivot, l, r) ==
    IF l >= r THEN l
    ELSE LET p == l + ((r - l) \div 2)
         IN  IF KeyLt(pivot, s[p]) THEN BinSearch(s, pivot, l, p)
             ELSE BinSearch(s, pivot, p + 1, r)

\* s with s[st] moved to slot l (l <= st), the elements between shifted up.
InsertAt(s, st, l) ==
    [i \in 1..Len(s) |->
        IF i < l THEN s[i]
        ELSE IF i = l THEN s[st]
        ELSE IF i <= st THEN s[i - 1]
        ELSE s[i]]

RECURSIVE BinarySort(_, _)
BinarySort(s, st) ==
    IF st > Len(s) THEN s
    ELSE BinarySort(InsertAt(s, st, BinSearch(s, s[st], 1, st)), st + 1)

\* merged.sort(key=lambda r: r.score, reverse=True) for a list shorter than
\* 64 elements (one run, extended by binary insertion): the list is reversed,
\* sorted ascending with < alone, and reversed again.
SortByScoreReverse(s) ==
    IF Len(s) < 2 THEN s
    ELSE LET r == Reverse(s)
             desc == KeyLt(r[2], r[1])
             n == RunEnd(r, 3, desc)
             run == [i \in 1..Len(r) |-> IF desc /\ i <= n THEN r[n + 1 - i] ELSE r[i]]
         IN  Reverse(BinarySort(run, n + 1))

\* ---------------------------------------------------------- _merge_scores
\* claude_scores.get(item_id), then .get("score"): JNull when there is no
\* entry or the entry has no score.
EntryScore(scores, id) == IF id \in DOMAIN scores THEN scores[id].score ELSE JNull

\* Variant of ClaudeScore: the except clause names ValueError alone.
ClaudeScore_ValueErrorOnly(raw) ==
    IF raw = JNull THEN [exc |-> "none", val |-> NoneV]
    ELSE LET f == PyFloat(raw)
         IN  IF f.exc = "ValueError" THEN [exc |-> "none", val |-> NoneV] ELSE f

\* The try/except around float(claude_score): TypeError and ValueError give
\* None, any other exception leaves the function.
ClaudeScore(raw) ==
    IF raw = JNull THEN [exc |-> "none", val |-> NoneV]
    ELSE LET f == PyFloat(raw)
         IN  IF f.exc \in {"TypeError", "ValueError"}
             THEN [exc |-> "none", val |-> NoneV]
             ELSE f

\* Variant of FinalScore: tests the score for truth, so 0.0 counts as absent.
FinalScore_ZeroAbsent(cosine, claude_score) ==
    IF claude_score = NoneV \/ claude_score = Num(0) THEN cosine
    ELSE FDiv10(FAdd(FScale(Alpha, cosine), FScale(10 - Alpha, claude_score)))

\* Variant of FinalScore: weights the cosine by alpha also when it stands alone.
FinalScore_ScaledCosine(cosine, claude_score) ==
    IF claude_score = NoneV THEN FDiv10(FScale(Alpha, cosine))
    ELSE FDiv10(FAdd(FScale(Alpha, cosine), FScale(10 - Alpha, claude_score)))

\* final_score: cosine alone, or alpha*cosine + (1-alpha)*claude_score.
FinalScore(cosine, claude_score) ==
    IF claude_score = NoneV THEN cosine
    ELSE FDiv10(FAdd(FScale(Alpha, cosine), FScale(10 - Alpha, claude_score)))

\* One pass of the loop body: the ProductRecommendation appended for item.
\* (metadata is copied through unchanged and is left out.)
MergeItem(item, scores) ==
    LET cs == ClaudeScore(EntryScore(scores, item.id)).val
    IN  [id |-> item.id,
         score |-> FinalScore(item.cosine_similarity, cs),
         cosine_similarity |-> item.cosine_similarity,
         claude_score |-> cs]

\* Index of the first candidate whose handling raises, 0 when none does.
FirstRaise(cands, scores) ==
    LET bad == {i \in 1..Len(cands) :
                   ClaudeScore(EntryScore(scores, cands[i].id)).exc # "none"}
    IN  IF bad = {} THEN 0 ELSE CHOOSE i \in bad : \A j \in bad : i <= j

\* ------------------------------------------------------------ inputs
\* The components that a specification does not exercise stay idle.
MergeIdle ==
    /\ candidates = <<>>
    /\ claude_scores = <<>>
    /\ merged = <<>>
    /\ mpc = "idle"
    /\ raisedAt = 0

GateIdle ==
    /\ raw_record = <<>>
    /\ transformed = <<>>
    /\ gpc = "idle"

GenIdle ==
    /\ api_key = ""
    /\ anthropic = "ok"
    /\ client = FALSE
    /\ furniture_type = ""
    /\ api_outcome = "<no call>"
    /\ generated = ""
    /\ xpc = "idle"

TrainIdle ==
    /\ clock = 0
    /\ training_jobs = <<>>
    /\ threads = <<>>
    /\ answered = {}
    /\ reply = [op |-> "", job_id |-> "", code |-> 0, status |-> "", after_started |-> FALSE]

CleanIdle ==
    /\ raw_shape = "list"
    /\ raw_items = <<>>
    /\ idx = 0
    /\ cleaned = <<>>
    /\ rejects = <<>>
    /\ previous = <<>>
    /\ seen_keys = {}
    /\ seen_ids = {}
    /\ emitted_from = <<>>
    /\ cpc = "idle"

\* Candidate i has id i (vector search returns each id once); id 0 is an
\* id of claude_scores that is not among the candidates.  The cosine
\* similarities are in hundredths; JOther("absent") as an entry's score
\* stands for no entry at all.
MergeInit ==
    /\ \E n \in 0..MaxCand :
        /\ \E cos \in [1..n -> {50, 80}] :
             candidates = [i \in 1..n |-> [id |-> i, cosine_similarity |-> Num(cos[i])]]
        /\ \E sc \in [1..n -> {JNull, JNumber(0), JNumber(40), JNumStr(40), JOther("text"),
                               JOther("list"), JOther("mapping"), JOther("nan"),
                               JOther("inf"), JOther("ninf"), JOther("bigint"),
                               JOther("absent")}],
              extra \in BOOLEAN :
             claude_scores =
                [i \in {j \in 1..n : sc[j] # JOther("absent")} \cup (IF extra THEN {0} ELSE {})
                    |-> [score |-> IF i = 0 THEN JNumber(40) ELSE sc[i]]]
    /\ merged = <<>>
    /\ mpc = "start"
    /\ raisedAt = 0
    /\ GateIdle
    /\ CleanIdle
    /\ GenIdle
    /\ TrainIdle

\* The call _merge_scores(candidates, claude_scores).
MergeScores ==
    /\ mpc = "start"
    /\ LET r == FirstRaise(candidates, claude_scores)
       IN  IF r # 0
           THEN /\ mpc' = "raised"
                /\ raisedAt' = r
                /\ merged' = <<>>
           ELSE /\ mpc' = "returned"
                /\ raisedAt' = 0
                /\ merged' = SortByScoreReverse(
                                [i \in 1..Len(candidates) |-> MergeItem(candidates[i], claude_scores)])
    /\ UNCHANGED <<candidates, claude_scores, gateVars, cleanVars, genVars, trainVars>>

MergeNext == MergeScores

SpecMerge == MergeInit /\ [][MergeNext]_vars

\* ------------------------------------------------- claims: _merge_scores
\* The raw score the LLM gave candidate i, JNull when it gave none.
RawOf(i) == EntryScore(claude_scores, candidates[i].id)

\* The output holds exactly one recommendation of candidate i, and P holds of it.
OnlyOutput(i, P(_)) ==
    /\ Cardinality({k \in 1..Len(merged) : merged[k].id = candidates[i].id}) = 1
    /\ \A k \in 1..Len(merged) : merged[k].id = candidates[i].id => P(merged[k])

\* C1: _merge_scores returns exactly one recommendation per input candidate,
\* for every candidate list and every claude_scores map: the call returns, the
\* output is as long as the input and holds the same ids.
C1_OnePerCandidate ==
    mpc # "start" =>
        /\ mpc = "returned"
        /\ Len(merged) = Len(candidates)
        /\ \A i \in 1..Len(candidates) :
              Cardinality({k \in 1..Len(merged) : merged[k].id = candidates[i].id}) = 1
        /\ \A k \in 1..Len(merged) :
              \E i \in 1..Len(candidates) : candidates[i].id = merged[k].id

\* C2: the returned list is the stable descending sort by final score: for
\* i < j, output[i].score >= output[j].score, and equal scores keep the input
\* order (candidate i has id i, so input order is id order).
C2_SortedDescendingStable ==
    mpc = "returned" =>
        \A i, j \in 1..Len(merged) :
            i < j =>
                /\ FGe(merged[i].score, merged[j].score)
                /\ merged[i].score = merged[j].score => merged[i].id < merged[j].id

\* C3: a candidate whose entry carries a numeric score s gets the final score
\* alpha*cosine + (1-alpha)*s with alpha = 0.7, its cosine_similarity unchanged
\* and claude_score = s; a score of 0 is blended like any other.
C3_BlendWithNumericScore ==
    mpc = "returned" =>
        \A i \in 1..Len(candidates) :
            RawOf(i).t \in {"number", "numstr"} =>
                LET cos == candidates[i].cosine_similarity
                    s == RawOf(i).v
                    Blended(r) ==
                        /\ r.score = Num((7 * cos.v + 3 * s) \div 10)
                        /\ r.cosine_similarity = cos
                        /\ r.claude_score = Num(s)
                IN  OnlyOutput(i, Blended)

\* Cosine 0.8 with score 0.4 came out as 0.68, and a score of 0 was blended
\* with cosine 0.8 to 0.56.
C3_Witness ==
    /\ mpc = "returned"
    /\ \E k \in 1..Len(merged) :
          /\ merged[k].cosine_similarity = Num(80)
          /\ merged[k].claude_score = Num(40)
          /\ merged[k].score = Num(68)
    /\ \E k \in 1..Len(merged) :
          /\ merged[k].cosine_similarity = Num(80)
          /\ merged[k].claude_score = Num(0)
          /\ merged[k].score = Num(56)

\* C4: a candidate with no entry in claude_scores (the map empty or not) gets
\* its cosine similarity as final score, and no claude_score.
C4_CosineAloneWithoutEntry ==
    mpc = "returned" =>
        \A i \in 1..Len(candidates) :
            candidates[i].id \notin DOMAIN claude_scores =>
                LET CosineOnly(r) ==
                        /\ r.score = candidates[i].cosine_similarity
                        /\ r.claude_score = NoneV
                IN  OnlyOutput(i, CosineOnly)

\* A call with an empty claude_scores returned two candidates or more, and a
\* call with a non-empty map returned a candidate that has no entry.
C4_Witness ==
    /\ mpc = "returned"
    /\ Len(merged) >= 2
    /\ DOMAIN claude_scores = {}

\* C5: a score that is a non-numeric string, a list or a mapping is treated as
\* absent: handling that candidate does not raise, and in the returned list it
\* has its cosine similarity as final score and no claude_score.
C5_MalformedScoreIsAbsent ==
    /\ mpc = "raised" => RawOf(raisedAt).t \notin {"text", "list", "mapping"}
    /\ mpc = "returned" =>
        \A i \in 1..Len(candidates) :
            RawOf(i).t \in {"text", "list", "mapping"} =>
                LET CosineOnly(r) ==
                        /\ r.score = candidates[i].cosine_similarity
                        /\ r.claude_score = NoneV
                IN  OnlyOutput(i, CosineOnly)

\* A call returned with a string score for one candidate and a list or a
\* mapping for another.
C5_Witness ==
    /\ mpc = "returned"
    /\ \E i \in 1..Len(candidates) : RawOf(i).t = "text"
    /\ \E i \in 1..Len(candidates) : RawOf(i).t \in {"list", "mapping"}

\* C6: a score that parses to NaN or to an infinity is treated as no valid
\* score: the candidate's final score is its cosine similarity.
C6_NonFiniteScoreIsAbsent ==
    mpc = "returned" =>
        \A i \in 1..Len(candidates) :
            RawOf(i).t \in {"nan", "inf", "ninf"} =>
                LET CosineOnly(r) == r.score = candidates[i].cosine_similarity
                IN  OnlyOutput(i, CosineOnly)

(***************************************************************************)
(* Catalog Normalizer (apps/serve/scripts/clean_products.py).              *)
(*                                                                         *)
(* Strings are TLA+ strings, handled character by character.  Python's     *)
(* None in a string field is the string NoneS, a key that the record does  *)
(* not have is Absent.  Prices are the JSON values of the score model      *)
(* (JNumber, JNumStr, ..., in hundredths).                                 *)
(***************************************************************************)
NoneS == "<None>"
Absent == "<absent>"

\* bool(s) of Python for a string or None.
Truthy(s) == s \notin {"", NoneS, Absent}

\* ---------------------------------------------------------------- strings
Char(s, i) == SubSeq(s, i, i)

LowerAlphabet == "abcdefghijklmnopqrstuvwxyz"
UpperAlphabet == "ABCDEFGHIJKLMNOPQRSTUVWXYZ"
DigitAlphabet == "0123456789"

LowerChars == {Char(LowerAlphabet, i) : i \in 1..Len(LowerAlphabet)}
UpperChars == {Char(UpperAlphabet, i) : i \in 1..Len(UpperAlphabet)}
DigitChars == {Char(DigitAlphabet, i) : i \in 1..Len(DigitAlphabet)}
\* \s of the regular expressions.
SpaceChars == {" ", "\t", "\n"}

\* s.lower(): every upper-case letter is replaced by its lower-case letter.
RECURSIVE Lower(_)
Lower(s) ==
    IF s = "" THEN ""
    ELSE (IF Head(s) \in UpperChars
          THEN Char(LowerAlphabet,
                    CHOOSE i \in 1..Len(UpperAlphabet) : Char(UpperAlphabet, i) = Head(s))
          ELSE Head(s)) \o Lower(Tail(s))

\* s.lstrip(chars), s.rstrip(chars), s.strip()
RECURSIVE LStrip(_, _)
LStrip(s, chars) ==
    IF s # "" /\ Head(s) \in chars THEN LStrip(Tail(s), chars) ELSE s

RECURSIVE RStrip(_, _)
RStrip(s, chars) ==
    IF s # "" /\ Char(s, Len(s)) \in chars
    THEN RStrip(SubSeq(s, 1, Len(s) - 1), chars)
    ELSE s

Strip(s) == RStrip(LStrip(s, SpaceChars), SpaceChars)

\* kw occurs in text at position p.
MatchAt(text, kw, p) ==
    /\ p + Len(kw) - 1 <= Len(text)
    /\ SubSeq(text, p, p + Len(kw) - 1) = kw

\* \bkw\b matches text at position p (kw starts and ends with a word
\* character, so \b asks for a non-word character or the end on either side;
\* the word characters, \w, are the letters, the digits and "_").
WordAt(text, kw, p) ==
    /\ MatchAt(text, kw, p)
    /\ p = 1 \/ Char(text, p - 1) \notin LowerChars \cup UpperChars \cup DigitChars \cup {"_"}
    /\ \/ p + Len(kw) > Len(text)
       \/ Char(text, p + Len(kw)) \notin LowerChars \cup UpperChars \cup DigitChars \cup {"_"}

\* re.search(rf"\b{re.escape(kw)}\b", text)
SearchWord(kw, text) == \E p \in 1..Len(text) : WordAt(text, kw, p)

\* ----------------------------------------------------------- constants
CATEGORY_NAMES == <<"sofa", "chair", "table", "storage", "bed", "lamp", "rug", "decor">>

CATEGORY_KEYWORDS ==
    [sofa |-> <<"sofa", "sectional", "loveseat", "couch", "settee">>,
     chair |-> <<"armchair", "accent chair", "recliner", "lounger", "stool", "bench">>,
     table |-> <<"table", "desk", "console", "nightstand", "side table", "coffee table", "dining table">>,
     storage |-> <<"dresser", "cabinet", "sideboard", "credenza", "bookcase", "shelving", "wardrobe">>,
     bed |-> <<"platform bed", "bed frame", "headboard", "canopy bed">>,
     lamp |-> <<"lamp", "sconce", "chandelier", "pendant", "lighting", "light fixture", "floor lamp", "table lamp">>,
     rug |-> <<"rug", "runner">>,
     decor |-> <<"mirror", "wall art", "planter", "vase">>]

BANNED_TITLE_KEYWORDS ==
    <<"hamper", "laundry basket", "mattress topper", "mattress pad", "protector",
      "sheet", "pillow", "blanket", "duvet">>

ROOMTYPE_BY_CATEGORY ==
    [sofa |-> <<"living">>,
     chair |-> <<"living", "bedroom">>,
     table |-> <<"living", "bedroom">>,
     storage |-> <<"living", "bedroom">>,
     bed |-> <<"bedroom">>,
     lamp |-> <<"living", "bedroom">>,
     rug |-> <<"living", "bedroom">>,
     decor |-> <<"living">>]

\* CLEAN_CATEGORY_OVERRIDES, in the order of the dict.
CLEAN_CATEGORY_OVERRIDES == <<<<"bench", "chair">>, <<"ottoman", "chair">>>>

\* ------------------------------------------------------------ pick_category
\* Python's map(str.lower, categories)
LowerAll(list) == [i \in 1..Len(list) |-> Lower(list[i])]

\* The first category, in dict order, one of whose keywords is a word of the
\* title or of a category hint; NoneS when there is none.
FirstKeywordCategory(title_l, categories_l) ==
    LET hit == {c \in 1..Len(CATEGORY_NAMES) :
                  \E k \in 1..Len(CATEGORY_KEYWORDS[CATEGORY_NAMES[c]]) :
                     LET keyword == CATEGORY_KEYWORDS[CATEGORY_NAMES[c]][k]
                     IN  \/ SearchWord(keyword, title_l)
                         \/ \E h \in 1..Len(categories_l) : SearchWord(keyword, categories_l[h])}
    IN  IF hit = {} THEN NoneS
        ELSE CATEGORY_NAMES[CHOOSE c \in hit : \A d \in hit : c <= d]

\* Variant of pick_category: the overrides and the category keywords are
\* tried before the banned keywords.
pick_category_BannedLast(title, categories) ==
    LET title_l == Lower(title)
        categories_l == LowerAll(categories)
        overrides == {o \in 1..Len(CLEAN_CATEGORY_OVERRIDES) :
                        SearchWord(CLEAN_CATEGORY_OVERRIDES[o][1], title_l)}
    IN  IF overrides # {}
        THEN CLEAN_CATEGORY_OVERRIDES[CHOOSE o \in overrides : \A q \in overrides : o <= q][2]
        ELSE IF FirstKeywordCategory(title_l, categories_l) # NoneS
        THEN FirstKeywordCategory(title_l, categories_l)
        ELSE NoneS

pick_category(title, categories) ==
    LET title_l == Lower(title)
        categories_l == LowerAll(categories)
        overrides == {o \in 1..Len(CLEAN_CATEGORY_OVERRIDES) :
                        SearchWord(CLEAN_CATEGORY_OVERRIDES[o][1], title_l)}
    IN  IF \E b \in 1..Len(BANNED_TITLE_KEYWORDS) : SearchWord(BANNED_TITLE_KEYWORDS[b], title_l)
        THEN NoneS
        ELSE IF overrides # {}
        THEN CLEAN_CATEGORY_OVERRIDES[CHOOSE o \in overrides : \A q \in overrides : o <= q][2]
        ELSE FirstKeywordCategory(title_l, categories_l)

\* ------------------------------------------------------------------ helpers
\* max_len of slugify
SLUG_MAX_LEN == 48

\* re.sub(r"[^a-z0-9]+", "-", s): every run of other characters becomes "-".
RECURSIVE SubNonAlnum(_, _)
SubNonAlnum(s, inRun) ==
    IF s = "" THEN ""
    ELSE IF Head(s) \in LowerChars \cup DigitChars
    THEN Head(s) \o SubNonAlnum(Tail(s), FALSE)
    ELSE (IF inRun THEN "" ELSE "-") \o SubNonAlnum(Tail(s), TRUE)

slugify(value) ==
    LET slug == RStrip(LStrip(SubNonAlnum(Lower(value), FALSE), {"-"}), {"-"})
        cut == IF Len(slug) > SLUG_MAX_LEN
               THEN RStrip(SubSeq(slug, 1, SLUG_MAX_LEN), {"-"})
               ELSE slug
    IN  IF cut = "" THEN "item" ELSE cut

\* first(iterable): the first truthy string, else None.
first(list) ==
    LET ok == {i \in 1..Len(list) : Truthy(list[i])}
    IN  IF ok = {} THEN NoneS ELSE list[CHOOSE i \in ok : \A j \in ok : i <= j]

\* Order-preserving removal of repeated elements.
RECURSIVE Dedupe(_)
Dedupe(list) ==
    IF list = <<>> THEN <<>>
    ELSE LET init == Dedupe(SubSeq(list, 1, Len(list) - 1))
             last == list[Len(list)]
         IN  IF \E i \in 1..Len(init) : init[i] = last THEN init ELSE Append(init, last)

StripAll(list) == [i \in 1..Len(list) |-> Strip(list[i])]
NonEmpty(v) == v # ""

normalize_list(values) ==
    Dedupe(LowerAll(SelectSeq(StripAll(SelectSeq(values, Truthy)), NonEmpty)))

\* Length of the delimiter [,/;]|\band\b|\bor\b at position p, 0 when none
\* (low is the text in lower case: the pattern ignores case).
DelimiterAt(low, p) ==
    IF Char(low, p) \in {",", "/", ";"} THEN 1
    ELSE IF WordAt(low, "and", p) THEN 3
    ELSE IF WordAt(low, "or", p) THEN 2
    ELSE 0

\* re.split of text from position p on, the current part starting at start.
RECURSIVE SplitFrom(_, _, _, _)
SplitFrom(text, low, p, start) ==
    IF p > Len(text) THEN <<SubSeq(text, start, Len(text))>>
    ELSE LET n == DelimiterAt(low, p)
         IN  IF n > 0
             THEN <<SubSeq(text, start, p - 1)>> \o SplitFrom(text, low, p + n, p + n)
             ELSE SplitFrom(text, low, p + 1, start)

split_on_delimiters(text) ==
    SelectSeq(StripAll(SplitFrom(text, Lower(text), 1, 1)), NonEmpty)

\* extract_detail(item, *detail_keys) on item's product_details;
\* detail_map.get(key) is the value of the last detail whose type is key.
extract_detail(details, detail_keys) ==
    first([k \in 1..Len(detail_keys) |->
              LET at == {i \in 1..Len(details) :
                            Lower(Strip(details[i].type)) = Lower(detail_keys[k])}
              IN  IF at = {} THEN NoneS
                  ELSE details[CHOOSE i \in at : \A j \in at : j <= i].value])

\* --------------------------------------------------------- parse_dimensions
\* Alternatives of the unit group of DIMENSION_RE, in the order of the pattern.
UNIT_ALTERNATIVES ==
    <<"cm", "centimeter", "centimeters", "mm", "millimeter", "millimeters",
      "ft", "feet", "foot", "in", "inch", "inches", "\"">>

\* UNIT_TO_INCH as a fraction <<numerator, denominator>> of an inch.
UNIT_TO_INCH(unit) ==
    CASE unit \in {"in", "inch", "inches", "\""} -> <<1, 1>>
      [] unit \in {"ft", "feet", "foot"} -> <<12, 1>>
      [] unit \in {"cm", "centimeter", "centimeters"} -> <<393701, 1000000>>
      [] unit \in {"mm", "millimeter", "millimeters"} -> <<393701, 10000000>>
      [] OTHER -> <<0, 1>>

DIMENSION_LABEL_MAP(label) ==
    CASE label \in {"l", "length", "d", "depth"} -> "d"
      [] label \in {"w", "width"} -> "w"
      [] label \in {"h", "height"} -> "h"
      [] OTHER -> label

\* re.split(r"\s*[x]\s*", text): the parts between the letters x.
RECURSIVE SplitOnX(_, _, _)
SplitOnX(text, p, start) ==
    IF p > Len(text) THEN <<Strip(SubSeq(text, start, Len(text)))>>
    ELSE IF Char(text, p) = "x"
    THEN <<Strip(SubSeq(text, start, p - 1))>> \o SplitOnX(text, p + 1, p + 1)
    ELSE SplitOnX(text, p + 1, start)

\* First position at or after p that holds no character of chars.
RECURSIVE SkipChars(_, _, _)
SkipChars(s, p, chars) ==
    IF p <= Len(s) /\ Char(s, p) \in chars THEN SkipChars(s, p + 1, chars) ELSE p

RECURSIVE ToInt(_)
ToInt(digits) ==
    IF digits = "" THEN 0
    ELSE 10 * ToInt(SubSeq(digits, 1, Len(digits) - 1))
         + (CHOOSE i \in 1..Len(DigitAlphabet) :
                Char(DigitAlphabet, i) = Char(digits, Len(digits))) - 1

RECURSIVE Pow10(_)
Pow10(n) == IF n = 0 THEN 1 ELSE 10 * Pow10(n - 1)

\* round(x * m / d): the nearest integer, a tie going to the even one.  The
\* product is taken in two parts when d is a multiple of 1000, to stay within
\* 32-bit integers.
MulDivRound(x, m, d) ==
    LET big == d % 1000 = 0
        D == IF big THEN d \div 1000 ELSE d
        hi == IF big THEN x * (m \div 1000) + (x * (m % 1000)) \div 1000 ELSE x * m
        lo == IF big THEN (x * (m % 1000)) % 1000 ELSE 0
        q == hi \div D
        rem2 == IF big THEN 2 * (1000 * (hi % D) + lo) ELSE 2 * (hi % D)
    IN  IF rem2 > d \/ (rem2 = d /\ q % 2 = 1) THEN q + 1 ELSE q

(***************************************************************************)
(* DIMENSION_RE.search(segment) on the segment in lower case (the pattern  *)
(* is IGNORECASE).  The search stops at the first digit, position b; the   *)
(* digits end before e; with a fraction (frac) its digits run from e + 1   *)
(* and end before f, else f = e; the unit is tried at u, after the white   *)
(* space, and the label after the unit and more white space.  The value is *)
(* num / 10^scale; unit and label are "" for a group that took no part.    *)
(***************************************************************************)

\* (?P<label>[ldwh]{1}|length|depth|width|height)? at position l
LabelAt(low, l) ==
    IF l <= Len(low) /\ Char(low, l) \in {"l", "d", "w", "h"} THEN Char(low, l) ELSE ""

\* (?P<unit>cm|centimeter|...)? at position u: the first alternative that
\* matches there.
UnitAt(low, u) ==
    LET units == {k \in 1..Len(UNIT_ALTERNATIVES) : MatchAt(low, UNIT_ALTERNATIVES[k], u)}
    IN  IF units = {} THEN ""
        ELSE UNIT_ALTERNATIVES[CHOOSE k \in units : \A m \in units : k <= m]

MatchLabel(low, b, e, frac, f, u, unit) ==
    [ok |-> TRUE,
     num |-> ToInt(SubSeq(low, b, e - 1) \o (IF frac THEN SubSeq(low, e + 1, f - 1) ELSE "")),
     scale |-> IF frac THEN f - e - 1 ELSE 0,
     unit |-> unit,
     label |-> LabelAt(low, IF unit = "" THEN u ELSE SkipChars(low, u + Len(unit), SpaceChars))]

MatchUnit(low, b, e, frac, f, u) == MatchLabel(low, b, e, frac, f, u, UnitAt(low, u))

MatchSpace(low, b, e, frac, f) == MatchUnit(low, b, e, frac, f, SkipChars(low, f, SpaceChars))

MatchFraction(low, b, e, frac) ==
    MatchSpace(low, b, e, frac, IF frac THEN SkipChars(low, e + 1, DigitChars) ELSE e)

\* (?:\.[0-9]+)? at position e
HasFraction(low, e) ==
    /\ e + 1 <= Len(low)
    /\ Char(low, e) = "."
    /\ Char(low, e + 1) \in DigitChars

MatchDigits(low, b, e) == MatchFraction(low, b, e, HasFraction(low, e))

SearchNumber(low) ==
    LET digits == {i \in 1..Len(low) : Char(low, i) \in DigitChars}
    IN  IF digits = {} THEN [ok |-> FALSE, num |-> 0, scale |-> 0, unit |-> "", label |-> ""]
        ELSE MatchDigits(low, CHOOSE i \in digits : \A j \in digits : i <= j,
                         SkipChars(low, CHOOSE i \in digits : \A j \in digits : i <= j, DigitChars))

DimensionMatch(segment) == SearchNumber(Lower(segment))

\* Variant of Inches: a segment without a unit is taken as feet.
Inches_UnitlessAsFeet(m) ==
    LET mult == UNIT_TO_INCH(IF m.unit = "" THEN "ft" ELSE m.unit)
    IN  MulDivRound(m.num * 100, mult[1], Pow10(m.scale) * mult[2])

\* raw_value * multiplier, in hundredths of an inch (the results are rounded
\* to two decimals before they are returned).
Inches(m) ==
    LET unit == IF m.unit = "" THEN "\"" ELSE m.unit
        mult == UNIT_TO_INCH(unit)
    IN  MulDivRound(m.num * 100, mult[1], Pow10(m.scale) * mult[2])

NoDimensions == [ok |-> FALSE, w |-> 0, d |-> 0, h |-> 0]

\* The loop over the segments: values maps w, d, h to hundredths of an inch
\* (-1 for None), fallback lists the values without a label.  DimensionStep
\* is the loop body for the match m of the first segment.
RECURSIVE DimensionLoop(_, _, _)
DimensionStep(m, label, rest, values, fallback) ==
    IF ~m.ok \/ UNIT_TO_INCH(IF m.unit = "" THEN "\"" ELSE m.unit)[1] = 0
    THEN DimensionLoop(rest, values, fallback)
    ELSE IF label \in {"w", "d", "h"}
    THEN DimensionLoop(rest, [values EXCEPT ![label] = Inches(m)], fallback)
    ELSE DimensionLoop(rest, values, Append(fallback, Inches(m)))

DimensionMatchStep(m, rest, values, fallback) ==
    DimensionStep(m, DIMENSION_LABEL_MAP(m.label), rest, values, fallback)

DimensionLoop(segments, values, fallback) ==
    IF segments = <<>> THEN [values |-> values, fallback |-> fallback]
    ELSE DimensionMatchStep(DimensionMatch(Head(segments)), Tail(segments), values, fallback)

\* Variant of FillFallback: the unlabeled values go to w, d, h in that order.
FillFallback_WidthFirst(values, fallback) ==
    LET order == <<"w", "d", "h">>
        Slot(k) == IF values[order[k]] = -1 /\ k <= Len(fallback)
                   THEN fallback[k] ELSE values[order[k]]
    IN  [w |-> Slot(1), d |-> Slot(2), h |-> Slot(3)]

\* zip(["d", "w", "h"], fallback): the k-th unlabeled value goes to the k-th
\* of d, w, h when that axis is still None.
FillFallback(values, fallback) ==
    LET order == <<"d", "w", "h">>
        Slot(k) == IF values[order[k]] = -1 /\ k <= Len(fallback)
                   THEN fallback[k] ELSE values[order[k]]
    IN  [d |-> Slot(1), w |-> Slot(2), h |-> Slot(3)]

\* if None in values.values(): return None
DimensionsResult(v) ==
    IF -1 \in {v.w, v.d, v.h} THEN NoDimensions
    ELSE [ok |-> TRUE, w |-> v.w, d |-> v.d, h |-> v.h]

FilledDimensions(r) == DimensionsResult(FillFallback(r.values, r.fallback))

parse_dimensions(text) ==
    IF ~Truthy(text) THEN NoDimensions
    ELSE FilledDimensions(DimensionLoop(SplitOnX(text, 1, 1), [w |-> -1, d |-> -1, h |-> -1], <<>>))

\* ------------------------------------------------------------ derive_*
DESCRIPTION_MAX_CHARS == 420

\* Number of leading features that derive_style_tags looks at, and the length
\* from which a feature is skipped.
STYLE_FEATURES == 3
STYLE_FEATURE_MAX_LEN == 120

RECURSIVE FlattenSplit(_)
FlattenSplit(texts) ==
    IF texts = <<>> THEN <<>>
    ELSE split_on_delimiters(Head(texts)) \o FlattenSplit(Tail(texts))

ShortFeature(feature) == Len(feature) < STYLE_FEATURE_MAX_LEN

derive_style_tags(item) ==
    LET style_text == extract_detail(item.product_details, <<"style", "theme", "pattern">>)
        head == SubSeq(item.features, 1,
                       IF Len(item.features) < STYLE_FEATURES THEN Len(item.features)
                       ELSE STYLE_FEATURES)
    IN  normalize_list(
            (IF Truthy(style_text) THEN split_on_delimiters(style_text) ELSE <<>>)
            \o FlattenSplit(SelectSeq(head, ShortFeature)))

derive_materials(item) ==
    LET materials == extract_detail(item.product_details,
                                    <<"material", "materials", "frame material", "fabric type">>)
    IN  IF ~Truthy(materials) THEN <<>>
        ELSE normalize_list(split_on_delimiters(materials))

derive_colors(item) ==
    LET color == extract_detail(item.product_details, <<"color", "finish type", "finish types">>)
    IN  IF ~Truthy(color) THEN <<>>
        ELSE normalize_list(split_on_delimiters(color))

derive_lighting_type(item) ==
    LET lighting == extract_detail(item.product_details,
                        <<"light type", "light source type", "lighting type", "special feature">>)
        found == IF Truthy(lighting) THEN normalize_list(split_on_delimiters(lighting)) ELSE <<>>
    IN  IF found = <<>> THEN NoneS ELSE found[1]

\* " ".join(text.split()): the words of text, one space between them.
RECURSIVE JoinWords(_, _)
JoinWords(text, pending) ==
    IF text = "" THEN ""
    ELSE IF Head(text) \in SpaceChars THEN JoinWords(Tail(text), TRUE)
    ELSE (IF pending THEN " " ELSE "") \o Head(text) \o JoinWords(Tail(text), FALSE)

build_description(item) ==
    LET description == first(<<item.description, item.top_review>>)
        joined == JoinWords(Strip(description), FALSE)
    IN  IF ~Truthy(description) THEN NoneS
        ELSE SubSeq(joined, 1, IF Len(joined) < DESCRIPTION_MAX_CHARS THEN Len(joined)
                                ELSE DESCRIPTION_MAX_CHARS)

\* bool(x) of Python for a JSON value: None, 0 and "" are false.
JTruthy(x) ==
    /\ x.t \notin {"null", "empty"}
    /\ ~(x.t = "number" /\ x.v = 0)
    /\ ~(x.t = "string" /\ x.s = "")

\* float(s) of Python for a string s: white space around it is dropped, then
\* comes an optional sign and either nan, inf or infinity (in any case) or a
\* decimal literal, digits with an optional point; anything else raises
\* ValueError.  The value is in hundredths, rounded as extract_price rounds
\* it.  (Exponents, digit separators and literals that end in a 5 at the
\* third decimal, whose rounding depends on the binary value, are not among
\* the inputs.)
FloatOfLiteral(negative, body, e, f) ==
    LET intPart == SubSeq(body, 1, e - 1)
        frac == SubSeq(body, e + 1, f - 1)
        hundredths == MulDivRound(ToInt(intPart \o frac), 100, Pow10(Len(frac)))
    IN  IF f < Len(body) + 1 \/ intPart \o frac = ""
        THEN [exc |-> "ValueError", val |-> NoneV]
        ELSE [exc |-> "none", val |-> Num(IF negative THEN -hundredths ELSE hundredths)]

FloatOfDigits(negative, body, e) ==
    FloatOfLiteral(negative, body, e,
                   IF e <= Len(body) /\ Char(body, e) = "."
                   THEN SkipChars(body, e + 1, DigitChars) ELSE e)

FloatOfUnsigned(negative, body) ==
    IF Lower(body) = "nan" THEN [exc |-> "none", val |-> NaN]
    ELSE IF Lower(body) \in {"inf", "infinity"}
    THEN [exc |-> "none", val |-> IF negative THEN NegInf ELSE PosInf]
    ELSE FloatOfDigits(negative, body, SkipChars(body, 1, DigitChars))

FloatOfStripped(t) ==
    IF t # "" /\ Head(t) \in {"+", "-"}
    THEN FloatOfUnsigned(Head(t) = "-", Tail(t))
    ELSE FloatOfUnsigned(FALSE, t)

FloatOfText(s) == FloatOfStripped(Strip(s))

\* float(price) for the JSON value of a price field.
FloatOfPrice(x) == IF x.t = "string" THEN FloatOfText(x.s) ELSE PyFloat(x)

\* extract_price: round(float(price), 2) of the first truthy of final_price
\* and initial_price; None when there is none or float() raises TypeError or
\* ValueError.  (Prices are given in hundredths, so the rounding keeps them.)
FirstPrice(item) ==
    IF JTruthy(item.final_price) THEN item.final_price
    ELSE IF JTruthy(item.initial_price) THEN item.initial_price
    ELSE JNull

extract_price(item) ==
    LET f == FloatOfPrice(FirstPrice(item))
    IN  IF FirstPrice(item) = JNull \/ f.exc \in {"TypeError", "ValueError"} THEN NoneV
        ELSE f.val

\* math.isclose(price, 0.0) with the default tolerances: only 0.0 itself.
IsCloseToZero(price) == price = Num(0)

build_id(category, name, asin) ==
    LET slug == slugify(name)
        full == IF Truthy(asin) THEN slugify(slug \o "-" \o Lower(asin)) ELSE slug
    IN  "furn_" \o category \o "_" \o full \o "_v01"

\* ----------------------------------------------------------- transform_item
ALLOWED_FIELDS ==
    {"id", "name", "brand", "category", "roomTypes", "price", "currency", "buy_url",
     "image_url", "dimensions_in", "materials", "colors", "style_tags", "description",
     "scraped_at", "lighting_type"}

\* The item of a TransformResult that carries a reason (the code's {}).
NoItem ==
    [id |-> "", name |-> "", brand |-> "", category |-> "", roomTypes |-> <<>>,
     price |-> NoneV, currency |-> "", buy_url |-> "", image_url |-> "",
     dimensions_in |-> NoDimensions, materials |-> <<>>, colors |-> <<>>,
     style_tags |-> <<>>, description |-> "", scraped_at |-> "",
     lighting_type |-> NoneS]

Rejected(reason) == [reason |-> reason, item |-> NoItem]

\* raw.get(key) for a string field: None when the key is missing.
Get(value) == IF value = Absent THEN NoneS ELSE value

\* The title after (raw.get("title") or "").strip()
TitleOf(raw) == IF Truthy(raw.title) THEN Strip(raw.title) ELSE ""

DimensionsTextOf(raw) ==
    first(<<Get(raw.product_dimensions),
            extract_detail(raw.product_details,
                           <<"product dimensions", "item dimensions lxwxh", "dimensions">>)>>)

StyleTagsOf(raw) ==
    LET style_tags == derive_style_tags(raw)
    IN  IF style_tags = <<>> THEN normalize_list(raw.categories) ELSE style_tags

BrandOf(raw) ==
    LET brand == first(<<Get(raw.brand), extract_detail(raw.product_details, <<"brand", "manufacturer">>)>>)
    IN  IF Truthy(brand) THEN brand ELSE "unknown"

\* first(raw.get("images") or [raw.get("image_url")])
ImageUrlOf(raw) ==
    first(IF raw.images # <<>> THEN raw.images ELSE <<Get(raw.image_url)>>)

\* Variant of MissingRequired: only the first missing field is named.
MissingRequired_FirstOnly(buy_url, scraped_at) ==
    CASE ~Truthy(buy_url) -> "missing_buy_url"
      [] ~Truthy(scraped_at) -> "missing_scraped_at"
      [] OTHER -> NoneS

\* The reason for the required fields that are missing after assembly.
MissingRequired(buy_url, scraped_at) ==
    CASE ~Truthy(buy_url) /\ ~Truthy(scraped_at) -> "missing_buy_url-scraped_at"
      [] ~Truthy(buy_url) -> "missing_buy_url"
      [] ~Truthy(scraped_at) -> "missing_scraped_at"
      [] OTHER -> NoneS

CategoryOf(raw) == pick_category(TitleOf(raw), raw.categories)
DimensionsOf(raw) == parse_dimensions(Get(DimensionsTextOf(raw)))

\* The dict assembled once every field check has passed.
Assembled(raw) ==
    [id |-> build_id(CategoryOf(raw), TitleOf(raw), Get(raw.asin)),
     name |-> TitleOf(raw),
     brand |-> BrandOf(raw),
     category |-> CategoryOf(raw),
     roomTypes |-> ROOMTYPE_BY_CATEGORY[CategoryOf(raw)],
     price |-> extract_price(raw),
     currency |-> IF raw.currency = Absent THEN "USD" ELSE raw.currency,
     buy_url |-> Get(raw.url),
     image_url |-> ImageUrlOf(raw),
     dimensions_in |-> DimensionsOf(raw),
     materials |-> derive_materials(raw),
     colors |-> derive_colors(raw),
     style_tags |-> StyleTagsOf(raw),
     description |-> build_description(raw),
     scraped_at |-> Get(raw.timestamp),
     lighting_type |-> IF CategoryOf(raw) = "lamp" THEN derive_lighting_type(raw) ELSE NoneS]

\* Variant of GateReason: the price is checked before the materials.
GateReason_PriceBeforeMaterials(raw) ==
    IF TitleOf(raw) = "" THEN "missing_title"
    ELSE IF ~Truthy(CategoryOf(raw)) THEN "category_filter"
    ELSE IF ~DimensionsOf(raw).ok THEN "missing_dimensions"
    ELSE IF extract_price(raw) = NoneV \/ IsCloseToZero(extract_price(raw)) THEN "missing_price"
    ELSE IF derive_materials(raw) = <<>> THEN "missing_materials"
    ELSE IF derive_colors(raw) = <<>> THEN "missing_colors"
    ELSE IF StyleTagsOf(raw) = <<>> THEN "missing_style_tags"
    ELSE IF ~Truthy(ImageUrlOf(raw)) THEN "missing_image"
    ELSE IF ~Truthy(build_description(raw)) THEN "missing_description"
    ELSE MissingRequired(Get(raw.url), Get(raw.timestamp))

\* The early returns of transform_item, in the order of the code: the reason
\* of the first check that fails, NoneS when the record passes them all.
GateReason(raw) ==
    IF TitleOf(raw) = "" THEN "missing_title"
    ELSE IF ~Truthy(CategoryOf(raw)) THEN "category_filter"
    ELSE IF ~DimensionsOf(raw).ok THEN "missing_dimensions"
    ELSE IF derive_materials(raw) = <<>> THEN "missing_materials"
    ELSE IF derive_colors(raw) = <<>> THEN "missing_colors"
    ELSE IF StyleTagsOf(raw) = <<>> THEN "missing_style_tags"
    ELSE IF extract_price(raw) = NoneV \/ IsCloseToZero(extract_price(raw)) THEN "missing_price"
    ELSE IF ~Truthy(ImageUrlOf(raw)) THEN "missing_image"
    ELSE IF ~Truthy(build_description(raw)) THEN "missing_description"
    ELSE MissingRequired(Get(raw.url), Get(raw.timestamp))

transform_item(raw) ==
    LET reason == GateReason(raw)
    IN  IF reason # NoneS THEN Rejected(reason)
        ELSE [reason |-> NoneS, item |-> Assembled(raw)]

\* A truthy value that is no string, such as the number 5, under the key
\* title or asin.
NotAString == "<non-string>"

\* The exception that escapes transform_item(raw), "none" when it returns:
\*   AttributeError  raw.get("title").strip() on a title that is no string;
\*   OverflowError   float(price), which extract_price does not catch, when
\*                   the record gets as far as the price check;
\*   AttributeError  asin.lower() in build_id on an asin that is no string,
\*                   when the record passes the checks up to the description.
TransformException(raw) ==
    IF raw.title = NotAString THEN "AttributeError"
    ELSE IF /\ FirstPrice(raw) # JNull
            /\ FloatOfPrice(FirstPrice(raw)).exc = "OverflowError"
            /\ GateReason(raw) = "missing_price"
    THEN "OverflowError"
    ELSE IF /\ raw.asin = NotAString
            /\ GateReason(raw) \in {NoneS, "missing_buy_url", "missing_scraped_at",
                                    "missing_buy_url-scraped_at"}
    THEN "AttributeError"
    ELSE "none"

\* ------------------------------------------------------------ clean_products
\* Variant of dedupe_key: the asin is ignored.
dedupe_key_ImageUrlOnly(entry) ==
    IF entry.image_url = Absent THEN "" ELSE entry.image_url

\* dedupe_key(entry), applied by clean_products to the raw record.
dedupe_key(entry) ==
    IF Truthy(Get(entry.asin)) THEN Lower(entry.asin)
    ELSE IF entry.image_url = Absent THEN "" ELSE entry.image_url

\* make_unique_id: base_id, or the first of base_id-v02, -v03, ... not seen
\* (f"{suffix:02d}" of a suffix under 100 is its two digits).
RECURSIVE UniqueFrom(_, _, _)
UniqueFrom(base_id, seen, suffix) ==
    LET candidate == base_id \o "-v" \o Char(DigitAlphabet, ((suffix \div 10) % 10) + 1)
                             \o Char(DigitAlphabet, (suffix % 10) + 1)
    IN  IF candidate \in seen THEN UniqueFrom(base_id, seen, suffix + 1) ELSE candidate

\* Variant of make_unique_id: the base id is returned without looking at seen.
make_unique_id_Unchecked(base_id, seen) == base_id

\* Variant of make_unique_id: a taken id always gets the suffix -v02.
make_unique_id_AlwaysV02(base_id, seen) ==
    IF base_id \in seen THEN base_id \o "-v02" ELSE base_id

make_unique_id(base_id, seen) ==
    IF base_id \in seen THEN UniqueFrom(base_id, seen, 2) ELSE base_id

\* counter[key] += 1 on a Counter.
Increment(counter, key) ==
    IF key \in DOMAIN counter THEN [counter EXCEPT ![key] = @ + 1]
    ELSE counter @@ (key :> 1)

\* Variant of CountReject: a duplicate is dropped without being counted.
CountReject_DuplicateUncounted(counter, reason) ==
    IF reason = "duplicate" THEN counter ELSE Increment(counter, reason)

\* Variant of IsDuplicate: every record with a key that comes after a record
\* with a key is a duplicate.
IsDuplicate_AfterAnyKey(key, seen) == Truthy(key) /\ seen # {}

\* rejects[reason] += 1
CountReject(counter, reason) == Increment(counter, reason)

\* if key and key in seen_keys
IsDuplicate(key, seen) == Truthy(key) /\ key \in seen

\* ------------------------------------------------------------ inputs
\* A record that passes every check.
BaseRaw ==
    [title |-> "Modern Oak Coffee Table",
     categories |-> <<"Furniture", "Tables">>,
     product_dimensions |-> "48 x 24 x 18 in",
     product_details |-> <<[type |-> "Material", value |-> "Oak"],
                           [type |-> "Color", value |-> "Natural"]>>,
     features |-> <<"Mid-Century, Modern">>,
     final_price |-> JNumber(24999),
     initial_price |-> JNull,
     brand |-> Absent,
     images |-> <<"http://x/img.jpg">>,
     image_url |-> Absent,
     description |-> "A  sturdy table.",
     top_review |-> Absent,
     asin |-> Absent,
     currency |-> Absent,
     url |-> "http://shop/t",
     timestamp |-> "2024-01-01"]

\* The records handed to transform_item: BaseRaw with every combination of a
\* good and a bad value of the fields that the checks read.
GatePool ==
    {[BaseRaw EXCEPT !.title = t, !.product_dimensions = d, !.product_details = pd,
                     !.features = tg[1], !.categories = tg[2], !.final_price = pr,
                     !.images = im, !.description = de, !.url = u, !.timestamp = ts] :
        t \in {"Modern Oak Coffee Table", "   ", "Laundry Hamper with Lid", "Gift Card"},
        d \in {"48 x 24 x 18 in", "48 x 24", NoneS},
        pd \in {<<[type |-> "Material", value |-> "Oak"],
                  [type |-> "Color", value |-> "Natural"]>>,
                <<[type |-> "Material", value |-> "Oak"]>>,
                <<[type |-> "Color", value |-> "Natural"]>>,
                <<[type |-> "Material", value |-> ", ;"], [type |-> "Color", value |-> ""]>>},
        tg \in {<<<<"Mid-Century, Modern">>, <<>>>>, <<<<>>, <<"Furniture">>>>, <<<<>>, <<>>>>},
        pr \in {JNumber(24999), JNumber(0), JOther("text"), JNull},
        im \in {<<"http://x/img.jpg">>, <<>>},
        de \in {"A  sturdy table.", "   ", Absent},
        u \in {"http://shop/t", Absent},
        ts \in {"2024-01-01", ""}}

\* Titles with a banned keyword, beside an override (bench, ottoman) or a
\* category keyword, and the category hints that go with them.
BannedPool ==
    {[BaseRaw EXCEPT !.title = t, !.categories = c] :
        t \in {"Laundry Hamper with Lid", "Laundry Basket Table", "Mattress Topper Lamp",
               "MATTRESS PAD for Platform Bed", "Desk Sheet Protector",
               "Storage Bench Pillow", "Ottoman Blanket Box", "Duvet Cabinet",
               "Sofa Pillow Cover"},
        c \in {<<>>, <<"Sofas & Couches", "Sofa">>, <<"Furniture", "Tables">>}}

\* Dimension strings of three segments, 48, 24 and 18, each with a unit
\* (units[i], "" for none) and an axis label (labels[i], "" for none).
DimText(units, labels) ==
    "48" \o units[1] \o labels[1] \o " x " \o
    "24" \o units[2] \o labels[2] \o " x " \o
    "18" \o units[3] \o labels[3]
DimCases ==
    {<<u, <<a, b, c>>>> :
        u \in {<<"", "", "">>, <<"", "", " in">>, <<" in", " in", " in">>,
               <<"\"", "\"", "\"">>, <<" cm", " cm", " cm">>, <<" ft", " in", " mm">>,
               <<"", "", " ft">>, <<"", " cm", "">>},
        a \in {"", " W", " D", " H", " L"},
        b \in {"", " W", " D", " H", " L"},
        c \in {"", " W", " D", " H", " L"}}
DimPool == {[BaseRaw EXCEPT !.product_dimensions = DimText(c[1], c[2])] : c \in DimCases}

\* Prices: numbers and strings, positive, zero, negative, not a number.
PricePool ==
    LET values == {JNumber(24999), JNumber(1), JNumber(0), JNumber(-500), JNull,
                   JString("$249.99"), JString("249.99"), JString(" 249.99 "),
                   JString("-5"), JString("0.00"), JString(""),
                   JString("call for price"), JString("nan"), JOther("nan"),
                   JOther("list")}
    IN  {[BaseRaw EXCEPT !.final_price = f, !.initial_price = i] : f \in values, i \in values}

\* Features: an entry of 120 characters, one of 119, and short ones, up to
\* four in a list, with and without a style detail and raw categories.
LongFeature ==
    "Industrial, sturdy hardwood frame with hand rubbed finish st" \o
    "urdy hardwood frame with hand rubbed finish sturdy hardwoods"
AlmostLongFeature ==
    "Coastal, sturdy hardwood frame with hand rubbed finish sturd" \o
    "y hardwood frame with hand rubbed finish sturdy hardwood fr"
StylePool ==
    {[BaseRaw EXCEPT !.features = f, !.categories = c,
                     !.product_details = BaseRaw.product_details \o st] :
        f \in UNION {[1..n -> {LongFeature, AlmostLongFeature, "Modern", "Rustic and Boho"}] :
                        n \in 0..4},
        c \in {<<>>, <<"Furniture", "Tables">>},
        st \in {<<>>, <<[type |-> "Style", value |-> "Farmhouse"]>>}}

GateInit ==
    /\ raw_record \in GatePool \cup BannedPool \cup DimPool \cup PricePool \cup StylePool
                        \cup {[BaseRaw EXCEPT !.product_dimensions = "4 x 2 x 1 ft"]}
    /\ transformed = <<>>
    /\ gpc = "start"
    /\ MergeIdle
    /\ CleanIdle
    /\ GenIdle
    /\ TrainIdle

\* The call transform_item(raw).
TransformItem ==
    /\ gpc = "start"
    /\ transformed' = transform_item(raw_record)
    /\ gpc' = "returned"
    /\ UNCHANGED <<raw_record, mergeVars, cleanVars, genVars, trainVars>>

GateNext == TransformItem

SpecGate == GateInit /\ [][GateNext]_vars

\* The records of the batches handed to clean_products: records with the same
\* asin (in either case, one of them invalid), records without an asin with
\* the same first image or the same image_url, a title whose slug fills the 48
\* characters of slugify, prices that are no positive number, "currency": null,
\* and fields of a type the code does not expect.
CleanPool ==
    {[BaseRaw EXCEPT !.asin = "B00OAK"],
     [BaseRaw EXCEPT !.asin = "B00OAK", !.title = "Oslo Armchair",
                     !.images = <<"http://x/oslo.jpg">>],
     [BaseRaw EXCEPT !.asin = "b00oak", !.title = "Walnut Desk",
                     !.images = <<"http://x/desk.jpg">>],
     [BaseRaw EXCEPT !.asin = "B00OAK", !.final_price = JNumber(0)],
     BaseRaw,
     [BaseRaw EXCEPT !.title = "Walnut Desk"],
     [BaseRaw EXCEPT !.images = <<>>, !.image_url = "http://x/u1.jpg"],
     [BaseRaw EXCEPT !.images = <<>>, !.image_url = "http://x/u1.jpg",
                     !.title = "Walnut Desk"],
     [BaseRaw EXCEPT !.asin = "B07WALNUT1",
                     !.title = "Handcrafted Solid Walnut Mid Century Extendable Dining Table",
                     !.images = <<"http://x/dining.jpg">>],
     [BaseRaw EXCEPT !.asin = "B01NEG", !.title = "Oak Side Table",
                     !.final_price = JNumber(-500)],
     [BaseRaw EXCEPT !.asin = "B02USD", !.title = "Oak Console",
                     !.final_price = JString("$249.99")],
     [BaseRaw EXCEPT !.asin = "B03CUR", !.title = "Oak Nightstand", !.currency = NoneS],
     [BaseRaw EXCEPT !.title = NotAString],
     [BaseRaw EXCEPT !.asin = NotAString],
     [BaseRaw EXCEPT !.asin = "B04BIG", !.final_price = JOther("bigint")]}

\* An emitted item read as a raw record: raw.get(key) finds the keys that the
\* item has (brand, image_url, description, currency) and none of the others.
AsRaw(item) ==
    [title |-> Absent,
     categories |-> <<>>,
     product_dimensions |-> Absent,
     product_details |-> <<>>,
     features |-> <<>>,
     final_price |-> JNull,
     initial_price |-> JNull,
     brand |-> item.brand,
     images |-> <<>>,
     image_url |-> item.image_url,
     description |-> item.description,
     top_review |-> Absent,
     asin |-> Absent,
     currency |-> item.currency,
     url |-> Absent,
     timestamp |-> Absent]

\* The output of clean_products on records of the pool, given back to it.
RefeedPool ==
    {AsRaw(res.item) :
        res \in {t \in {transform_item(r) : r \in {q \in CleanPool : TransformException(q) = "none"}} :
                    t.reason = NoneS}}

\* transform_item(raw) and dedupe_key(raw) of the records of the pool, worked
\* out once for all batches.
TransformOfPool == [r \in CleanPool \cup RefeedPool |-> transform_item(r)]
KeyOfPool == [r \in CleanPool \cup RefeedPool |-> dedupe_key(r)]
ExceptionOfPool == [r \in CleanPool \cup RefeedPool |-> TransformException(r)]

\* json.loads can hand to clean_products a list of records, a mapping (of
\* which the loop sees the keys), null or a number.
CleanInit ==
    /\ raw_shape \in {"list", "mapping", "null", "number"}
    /\ raw_items \in
         CASE raw_shape = "list" -> UNION {[1..n -> CleanPool] : n \in 0..MaxBatch}
           [] raw_shape = "mapping" -> UNION {[1..n -> {BaseRaw}] : n \in 0..MaxBatch}
           [] OTHER -> {<<>>}
    /\ idx = 0
    /\ cleaned = <<>>
    /\ rejects = <<>>
    /\ previous = <<>>
    /\ seen_keys = {}
    /\ seen_ids = {}
    /\ emitted_from = <<>>
    /\ cpc = "loop"
    /\ MergeIdle
    /\ GateIdle
    /\ GenIdle
    /\ TrainIdle

\* Variant of CleanStep: the dedup key is looked up and registered before the
\* record is validated.
CleanStep_KeyBeforeValidation ==
    /\ cpc = "loop"
    /\ raw_shape = "list"
    /\ idx < Len(raw_items)
    /\ ExceptionOfPool[raw_items[idx + 1]] = "none"
    /\ \E res \in {TransformOfPool[raw_items[idx + 1]]}, key \in {KeyOfPool[raw_items[idx + 1]]} :
       LET id == make_unique_id(res.item.id, seen_ids)
       IN  IF IsDuplicate(key, seen_keys)
           THEN /\ rejects' = CountReject(rejects, "duplicate")
                /\ UNCHANGED <<cleaned, seen_keys, seen_ids, emitted_from>>
           ELSE IF res.reason # NoneS
           THEN /\ rejects' = CountReject(rejects, res.reason)
                /\ seen_keys' = IF Truthy(key) THEN seen_keys \cup {key} ELSE seen_keys
                /\ UNCHANGED <<cleaned, seen_ids, emitted_from>>
           ELSE /\ seen_keys' = IF Truthy(key) THEN seen_keys \cup {key} ELSE seen_keys
                /\ seen_ids' = seen_ids \cup {id}
                /\ cleaned' = Append(cleaned, [res.item EXCEPT !.id = id])
                /\ emitted_from' = Append(emitted_from, idx + 1)
                /\ UNCHANGED rejects
    /\ idx' = idx + 1
    /\ UNCHANGED <<raw_shape, raw_items, previous, cpc, mergeVars, gateVars, genVars, trainVars>>

\* One pass of the loop of clean_products, over raw_items[idx + 1].
CleanStep ==
    /\ cpc = "loop"
    /\ raw_shape = "list"
    /\ idx < Len(raw_items)
    /\ ExceptionOfPool[raw_items[idx + 1]] = "none"
    /\ \E res \in {TransformOfPool[raw_items[idx + 1]]}, key \in {KeyOfPool[raw_items[idx + 1]]} :
       LET id == make_unique_id(res.item.id, seen_ids)
       IN  IF res.reason # NoneS
           THEN /\ rejects' = CountReject(rejects, res.reason)
                /\ UNCHANGED <<cleaned, seen_keys, seen_ids, emitted_from>>
           ELSE IF IsDuplicate(key, seen_keys)
           THEN /\ rejects' = CountReject(rejects, "duplicate")
                /\ UNCHANGED <<cleaned, seen_keys, seen_ids, emitted_from>>
           ELSE /\ seen_keys' = IF Truthy(key) THEN seen_keys \cup {key} ELSE seen_keys
                /\ seen_ids' = seen_ids \cup {id}
                /\ cleaned' = Append(cleaned, [res.item EXCEPT !.id = id])
                /\ emitted_from' = Append(emitted_from, idx + 1)
                /\ UNCHANGED rejects
    /\ idx' = idx + 1
    /\ UNCHANGED <<raw_shape, raw_items, previous, cpc, mergeVars, gateVars, genVars, trainVars>>

\* return cleaned, rejects
CleanReturn ==
    /\ cpc = "loop"
    /\ raw_shape \in {"list", "mapping"}
    /\ idx = Len(raw_items)
    /\ cpc' = "returned"
    /\ UNCHANGED <<raw_shape, raw_items, idx, cleaned, rejects, previous, seen_keys, seen_ids,
                   emitted_from, mergeVars, gateVars, genVars, trainVars>>

\* transform_item(raw_items[idx + 1]) raises: nothing in clean_products
\* catches the exception, which ends the call. The loop over a mapping hands
\* a key, a string, to transform_item, whose raw.get raises AttributeError.
CleanRaise ==
    /\ cpc = "loop"
    /\ raw_shape \in {"list", "mapping"}
    /\ idx < Len(raw_items)
    /\ raw_shape = "list" => ExceptionOfPool[raw_items[idx + 1]] # "none"
    /\ cpc' = "raised"
    /\ UNCHANGED <<raw_shape, raw_items, idx, cleaned, rejects, previous, seen_keys, seen_ids,
                   emitted_from, mergeVars, gateVars, genVars, trainVars>>

\* clean_products(cleaned): the list that a call returned is given to a
\* second call as its raw_items.
CleanRefeed ==
    /\ cpc = "returned"
    /\ raw_shape = "list"
    /\ previous = <<>>
    /\ previous' = <<cleaned>>
    /\ raw_items' = [k \in 1..Len(cleaned) |-> AsRaw(cleaned[k])]
    /\ idx' = 0
    /\ cleaned' = <<>>
    /\ rejects' = <<>>
    /\ seen_keys' = {}
    /\ seen_ids' = {}
    /\ emitted_from' = <<>>
    /\ cpc' = "loop"
    /\ UNCHANGED <<raw_shape, mergeVars, gateVars, genVars, trainVars>>

\* for raw in raw_items: null and numbers are not iterable, TypeError.
CleanNotIterable ==
    /\ cpc = "loop"
    /\ raw_shape \in {"null", "number"}
    /\ cpc' = "raised"
    /\ UNCHANGED <<raw_shape, raw_items, idx, cleaned, rejects, previous, seen_keys, seen_ids,
                   emitted_from, mergeVars, gateVars, genVars, trainVars>>

CleanNext == CleanStep \/ CleanRaise \/ CleanNotIterable \/ CleanReturn \/ CleanRefeed

SpecClean == CleanInit /\ [][CleanNext]_vars

\* ------------------------------------------------------ Claude3DGenerator
\* Position of the first occurrence of sub in text at or after from, 0 when
\* there is none ("sub in text", re.search of a literal).
Find(text, sub, from) ==
    LET at == {p \in from..Len(text) : MatchAt(text, sub, p)}
    IN  IF at = {} THEN 0 ELSE CHOOSE p \in at : \A q \in at : p <= q

\* The static models of _get_fallback_code.
fallback_generators ==
    [chair |->
        "function createFurniture() {\n" \o
        "  const group = new THREE.Group();\n" \o
        "\n" \o
        "  // Seat\n" \o
        "  const seatGeometry = new THREE.BoxGeometry(0.45, 0.05, 0.45);\n" \o
        "  const seatMaterial = new THREE.MeshPhongMaterial({ color: 0x8B4513 });\n" \o
        "  const seat = new THREE.Mesh(seatGeometry, seatMaterial);\n" \o
        "  seat.position.y = 0.45;\n" \o
        "  group.add(seat);\n" \o
        "\n" \o
        "  // Backrest\n" \o
        "  const backGeometry = new THREE.BoxGeometry(0.45, 0.5, 0.05);\n" \o
        "  const backrest = new THREE.Mesh(backGeometry, seatMaterial);\n" \o
        "  backrest.position.set(0, 0.7, -0.2);\n" \o
        "  group.add(backrest);\n" \o
        "\n" \o
        "  // Legs\n" \o
        "  const legGeometry = new THREE.CylinderGeometry(0.02, 0.02, 0.45);\n" \o
        "  const legMaterial = new THREE.MeshPhongMaterial({ color: 0x654321 });\n" \o
        "  [[-0.2, -0.2], [0.2, -0.2], [-0.2, 0.2], [0.2, 0.2]].forEach(([x, z]) => {\n" \o
        "    const leg = new THREE.Mesh(legGeometry, legMaterial);\n" \o
        "    leg.position.set(x, 0.225, z);\n" \o
        "    group.add(leg);\n" \o
        "  });\n" \o
        "\n" \o
        "  return group;\n" \o
        "}",
     sofa |->
        "function createFurniture() {\n" \o
        "  const group = new THREE.Group();\n" \o
        "\n" \o
        "  // Base cushion\n" \o
        "  const baseGeometry = new THREE.BoxGeometry(2, 0.4, 0.8);\n" \o
        "  const fabricMaterial = new THREE.MeshPhongMaterial({ color: 0x5C4033 });\n" \o
        "  const base = new THREE.Mesh(baseGeometry, fabricMaterial);\n" \o
        "  base.position.y = 0.2;\n" \o
        "  group.add(base);\n" \o
        "\n" \o
        "  // Backrest\n" \o
        "  const backGeometry = new THREE.BoxGeometry(2, 0.6, 0.2);\n" \o
        "  const backrest = new THREE.Mesh(backGeometry, fabricMaterial);\n" \o
        "  backrest.position.set(0, 0.5, -0.3);\n" \o
        "  group.add(backrest);\n" \o
        "\n" \o
        "  // Armrests\n" \o
        "  const armGeometry = new THREE.BoxGeometry(0.2, 0.3, 0.8);\n" \o
        "  const leftArm = new THREE.Mesh(armGeometry, fabricMaterial);\n" \o
        "  leftArm.position.set(-0.9, 0.35, 0);\n" \o
        "  group.add(leftArm);\n" \o
        "\n" \o
        "  const rightArm = new THREE.Mesh(armGeometry, fabricMaterial);\n" \o
        "  rightArm.position.set(0.9, 0.35, 0);\n" \o
        "  group.add(rightArm);\n" \o
        "\n" \o
        "  return group;\n" \o
        "}",
     table |->
        "function createFurniture() {\n" \o
        "  const group = new THREE.Group();\n" \o
        "\n" \o
        "  // Tabletop\n" \o
        "  const topGeometry = new THREE.BoxGeometry(1.2, 0.05, 0.8);\n" \o
        "  const woodMaterial = new THREE.MeshPhongMaterial({ color: 0x8B4513 });\n" \o
        "  const top = new THREE.Mesh(topGeometry, woodMaterial);\n" \o
        "  top.position.y = 0.75;\n" \o
        "  group.add(top);\n" \o
        "\n" \o
        "  // Legs\n" \o
        "  const legGeometry = new THREE.BoxGeometry(0.05, 0.75, 0.05);\n" \o
        "  const legMaterial = new THREE.MeshPhongMaterial({ color: 0x654321 });\n" \o
        "  [[-0.55, -0.35], [0.55, -0.35], [-0.55, 0.35], [0.55, 0.35]].forEach(([x, z]) => {\n" \o
        "    const leg = new THREE.Mesh(legGeometry, legMaterial);\n" \o
        "    leg.position.set(x, 0.375, z);\n" \o
        "    group.add(leg);\n" \o
        "  });\n" \o
        "\n" \o
        "  return group;\n" \o
        "}",
     lamp |->
        "function createFurniture() {\n" \o
        "  const group = new THREE.Group();\n" \o
        "\n" \o
        "  // Base\n" \o
        "  const baseGeometry = new THREE.CylinderGeometry(0.2, 0.25, 0.05);\n" \o
        "  const metalMaterial = new THREE.MeshPhongMaterial({ color: 0x2C2C2C });\n" \o
        "  const base = new THREE.Mesh(baseGeometry, metalMaterial);\n" \o
        "  base.position.y = 0.025;\n" \o
        "  group.add(base);\n" \o
        "\n" \o
        "  // Pole\n" \o
        "  const poleGeometry = new THREE.CylinderGeometry(0.02, 0.02, 1.5);\n" \o
        "  const pole = new THREE.Mesh(poleGeometry, metalMaterial);\n" \o
        "  pole.position.y = 0.75;\n" \o
        "  group.add(pole);\n" \o
        "\n" \o
        "  // Lampshade\n" \o
        "  const shadeGeometry = new THREE.ConeGeometry(0.3, 0.4, 8, 1, true);\n" \o
        "  const shadeMaterial = new THREE.MeshPhongMaterial({\n" \o
        "    color: 0xFFF8DC,\n" \o
        "    emissive: 0xFFF8DC,\n" \o
        "    emissiveIntensity: 0.1,\n" \o
        "  });\n" \o
        "  const shade = new THREE.Mesh(shadeGeometry, shadeMaterial);\n" \o
        "  shade.position.y = 1.3;\n" \o
        "  shade.rotation.z = Math.PI;\n" \o
        "  group.add(shade);\n" \o
        "\n" \o
        "  // Light\n" \o
        "  const light = new THREE.PointLight(0xFFFFAA, 0.5, 5);\n" \o
        "  light.position.y = 1.2;\n" \o
        "  group.add(light);\n" \o
        "\n" \o
        "  return group;\n" \o
        "}"]

\* Variant of get_fallback_code: the marker line is left out.
get_fallback_code_NoMarker(type) ==
    IF Lower(type) \in DOMAIN fallback_generators
    THEN fallback_generators[Lower(type)]
    ELSE "function createFurniture() {\n  const group = new THREE.Group();\n}"

\* _get_fallback_code(furniture_type): the static model of the type, the grey
\* box for a type without one, under the marker line.
get_fallback_code(type) ==
    LET fallback_code ==
            IF Lower(type) \in DOMAIN fallback_generators
            THEN fallback_generators[Lower(type)]
            ELSE "function createFurniture() {\n" \o
             "  const group = new THREE.Group();\n" \o
             "  const geometry = new THREE.BoxGeometry(1, 1, 1);\n" \o
             "  const material = new THREE.MeshPhongMaterial({ color: 0x808080 });\n" \o
             "  const mesh = new THREE.Mesh(geometry, material);\n" \o
             "  group.add(mesh);\n" \o
             "  return group;\n" \o
             "}"
    IN  IF MatchAt(fallback_code, "// FALLBACK_CODE", 1) THEN fallback_code
        ELSE "// FALLBACK_CODE\n" \o fallback_code

\* The backquote of the code fences is written @ here: "@@@" is the fence.
\* The text between the first fence, with javascript or js and a line break
\* after it, and the next fence: group 1 of re.search of the expression
\* fence (?:javascript|js)?\n?(.*?) fence with re.DOTALL; clean itself when
\* the expression does not match.
Unfenced(clean, open) ==
    LET lang == IF MatchAt(clean, "javascript", open + 3) THEN open + 13
                ELSE IF MatchAt(clean, "js", open + 3) THEN open + 5
                ELSE open + 3
        begin == IF MatchAt(clean, "\n", lang) THEN lang + 1 ELSE lang
        close == Find(clean, "@@@", begin)
    IN  IF close = 0 THEN clean ELSE SubSeq(clean, begin, close - 1)

\* _extract_code(response_text)
extract_code(response_text) ==
    LET stripped == Strip(response_text)
        clean == IF Find(stripped, "@@@", 1) # 0
                 THEN Unfenced(stripped, Find(stripped, "@@@", 1))
                 ELSE stripped
    IN  IF Find(clean, "function createFurniture", 1) # 0 THEN Strip(clean)
        ELSE IF Find(clean, "const group = new THREE.Group()", 1) # 0
        THEN "function createFurniture() {\n" \o Strip(clean) \o "\n}"
        ELSE Strip(clean)

\* What self.client.messages.create does: it raises ("<raise>"), answers
\* without content (""), or answers with the text.
ApiOutcomes ==
    {"<raise>", "", "  \n",
     "function createFurniture() {\n  return new THREE.Group();\n}",
     "@@@javascript\nfunction createFurniture() {\n  return new THREE.Group();\n}\n@@@",
     "Here you go:\n@@@js\nconst group = new THREE.Group();\nreturn group;\n@@@\nEnjoy.",
     "@@@ @@@",
     "@@@js\nfunction createFurniture() {",
     "I cannot help with that."}

GenInit ==
    /\ api_key \in {"", "dummy", "sk-ant-key"}
    /\ anthropic \in {"missing", "broken", "ok"}
    /\ client = FALSE
    /\ furniture_type \in {"sofa", "SOFA", "Chair", "table", "lamp", "bed", "spaceship", "", " sofa"}
    /\ api_outcome = "<no call>"
    /\ generated = ""
    /\ xpc = "new"
    /\ MergeIdle
    /\ GateIdle
    /\ CleanIdle
    /\ TrainIdle

\* Claude3DGenerator(api_key), in an environment without ANTHROPIC_API_KEY.
NewGenerator ==
    /\ xpc = "new"
    /\ IF api_key = ""
       THEN xpc' = "raised" /\ UNCHANGED client
       ELSE /\ client' = (api_key # "dummy" /\ anthropic = "ok")
            /\ xpc' = "ready"
    /\ UNCHANGED <<api_key, anthropic, furniture_type, api_outcome, generated, mergeVars,
                   gateVars, cleanVars, trainVars>>

\* generate_furniture_code(furniture_type, style, colors, materials, dimensions)
\* with arguments of the declared types, for which _build_prompt returns.
generate_furniture_code ==
    /\ xpc = "ready"
    /\ \E outcome \in ApiOutcomes :
          /\ api_outcome' = IF client THEN outcome ELSE "<no call>"
          /\ generated' =
                IF ~client \/ outcome = "<raise>" THEN get_fallback_code(furniture_type)
                ELSE IF Strip(extract_code(outcome)) = ""
                THEN get_fallback_code(furniture_type)
                ELSE extract_code(outcome)
    /\ xpc' = "returned"
    /\ UNCHANGED <<api_key, anthropic, client, furniture_type, mergeVars, gateVars,
                   cleanVars, trainVars>>

GenNext == NewGenerator \/ generate_furniture_code

SpecGenerate == GenInit /\ [][GenNext]_vars

\* ------------------------------------------------------------- api_server
\* The server after start-up: training_jobs = {} and no request served.
TrainInit == MergeIdle /\ GateIdle /\ CleanIdle /\ GenIdle /\ TrainIdle

\* POST /api/train with the body {"session_id": session_id}.  The folder of
\* session_1 exists under UPLOAD_FOLDER, that of session_0 does not.  now is
\* the value of int(time.time()) at line 124.  The thread is started before
\* the handler answers; its statements are the steps of run_training.
start_training ==
    /\ \E session_id \in {"", "session_0", "session_1"}, now \in clock..MaxClock :
          IF session_id = "" \/ session_id # "session_1"
          THEN /\ reply' = [op |-> "train", job_id |-> "",
                            code |-> IF session_id = "" THEN 400 ELSE 404,
                            status |-> "", after_started |-> FALSE]
               /\ UNCHANGED <<clock, threads, answered>>
          ELSE /\ Len(threads) < MaxRequests
               /\ LET job_id == "job_" \o Char(DigitAlphabet, now + 1)
                  IN  /\ clock' = now
                      /\ threads' = Append(threads, [job_id |-> job_id,
                                                     session_id |-> session_id,
                                                     pc |-> "create"])
                      /\ answered' = answered \cup {job_id}
                      /\ reply' = [op |-> "train", job_id |-> job_id, code |-> 200,
                                   status |-> "started", after_started |-> FALSE]
    /\ UNCHANGED <<training_jobs, mergeVars, gateVars, cleanVars, genVars>>

\* One statement of run_training in one of the threads: the creation of the
\* record (127-132), the training with the write of the status (147-158,
\* 161, 164), the write of progress (159) or of error (162, 165), the write
\* of end_time (167).  start_time is left out; a key that is not set has the
\* value "" (error) or -1 (end_time).
run_training ==
    /\ \E t \in 1..Len(threads) :
          LET job_id == threads[t].job_id
          IN  \/ /\ threads[t].pc = "create"
                 /\ training_jobs' =
                       (job_id :> [status |-> "running",
                                   session_id |-> threads[t].session_id,
                                   progress |-> 0, error |-> "", end_time |-> -1])
                          @@ training_jobs
                 /\ threads' = [threads EXCEPT ![t].pc = "train"]
              \/ /\ threads[t].pc = "train"
                 /\ \E outcome \in {"returncode 0", "returncode 1", "exception"} :
                       /\ training_jobs' =
                             [training_jobs EXCEPT ![job_id].status =
                                 IF outcome = "returncode 0" THEN "completed" ELSE "failed"]
                       /\ threads' = [threads EXCEPT ![t].pc =
                                         IF outcome = "returncode 0" THEN "progress"
                                         ELSE "error: " \o outcome]
              \/ /\ threads[t].pc = "progress"
                 /\ training_jobs' = [training_jobs EXCEPT ![job_id].progress = 100]
                 /\ threads' = [threads EXCEPT ![t].pc = "end"]
              \/ /\ threads[t].pc \in {"error: returncode 1", "error: exception"}
                 /\ training_jobs' =
                       [training_jobs EXCEPT ![job_id].error =
                           IF threads[t].pc = "error: exception" THEN "str(e)" ELSE "stderr"]
                 /\ threads' = [threads EXCEPT ![t].pc = "end"]
              \/ /\ threads[t].pc = "end"
                 /\ training_jobs' = [training_jobs EXCEPT ![job_id].end_time = clock]
                 /\ threads' = [threads EXCEPT ![t].pc = "done"]
    /\ UNCHANGED <<clock, answered, reply, mergeVars, gateVars, cleanVars, genVars>>

\* GET /api/training-status/<job_id>.  after_started records whether POST
\* /api/train had answered with this job id before the request.
get_training_status ==
    /\ \E job_id \in {"job_" \o Char(DigitAlphabet, n + 1) : n \in 0..MaxClock} \cup {"job_x"} :
          reply' = [op |-> "status", job_id |-> job_id,
                    code |-> IF job_id \in DOMAIN training_jobs THEN 200 ELSE 404,
                    status |-> IF job_id \in DOMAIN training_jobs
                               THEN training_jobs[job_id].status ELSE "",
                    after_started |-> job_id \in answered]
    /\ UNCHANGED <<clock, training_jobs, threads, answered,
                   mergeVars, gateVars, cleanVars, genVars>>

TrainNext == start_training \/ run_training \/ get_training_status

SpecTrain == TrainInit /\ [][TrainNext]_vars

\* ------------------------------------------------ claims: transform_item
\* The checks of transform_item, each taken on its own.
FailsTitle(r) == TitleOf(r) = ""
FailsCategory(r) == ~Truthy(CategoryOf(r))
FailsDimensions(r) == ~DimensionsOf(r).ok
FailsMaterials(r) == derive_materials(r) = <<>>
FailsColors(r) == derive_colors(r) = <<>>
FailsStyleTags(r) == StyleTagsOf(r) = <<>>
FailsPrice(r) == extract_price(r) = NoneV \/ extract_price(r) = Num(0)
FailsImage(r) == ~Truthy(ImageUrlOf(r))
FailsDescription(r) == ~Truthy(build_description(r))
FailsRequired(r) == ~Truthy(Get(r.url)) \/ ~Truthy(Get(r.timestamp))

\* The checks that r fails, numbered in the order of the gate.
FailedChecks(r) ==
    UNION {IF FailsTitle(r) THEN {1} ELSE {},
           IF FailsCategory(r) THEN {2} ELSE {},
           IF FailsDimensions(r) THEN {3} ELSE {},
           IF FailsMaterials(r) THEN {4} ELSE {},
           IF FailsColors(r) THEN {5} ELSE {},
           IF FailsStyleTags(r) THEN {6} ELSE {},
           IF FailsPrice(r) THEN {7} ELSE {},
           IF FailsImage(r) THEN {8} ELSE {},
           IF FailsDescription(r) THEN {9} ELSE {},
           IF FailsRequired(r) THEN {10} ELSE {}}

\* The reasons that check k can give.
ReasonsOfCheck(k) ==
    <<{"missing_title"}, {"category_filter"}, {"missing_dimensions"}, {"missing_materials"},
      {"missing_colors"}, {"missing_style_tags"}, {"missing_price"}, {"missing_image"},
      {"missing_description"},
      {"missing_buy_url", "missing_scraped_at", "missing_buy_url-scraped_at"}>>[k]

\* C7: transform_item is a sequential gate: a record is rejected exactly when
\* it fails a check, it gets one reason, and that is the reason of the first
\* failing check in the order title, category, dimensions, materials, colors,
\* style tags, price, image, description, buy_url/scraped_at.
C7_FirstFailingCheckGivesReason ==
    gpc = "returned" =>
        LET failed == FailedChecks(raw_record)
        IN  IF failed = {} THEN transformed.reason = NoneS
            ELSE /\ transformed.reason \in ReasonsOfCheck(CHOOSE k \in failed : \A m \in failed : k <= m)
                 /\ transformed.item = NoItem

\* A record that fails the dimension, price, image and buy_url checks was
\* rejected as missing_dimensions.
C7_Witness ==
    /\ gpc = "returned"
    /\ FailedChecks(raw_record) = {3, 7, 8, 10}
    /\ transformed.reason = "missing_dimensions"

\* ------------------------------------------------ claims: clean_products
RECURSIVE SumOver(_, _)
SumOver(counter, keys) ==
    IF keys = {} THEN 0
    ELSE LET k == CHOOSE x \in keys : TRUE
         IN  counter[k] + SumOver(counter, keys \ {k})

CountOf(counter, key) == IF key \in DOMAIN counter THEN counter[key] ELSE 0

\* Record i of the batch passes every check of transform_item.
Validated(i) == TransformOfPool[raw_items[i]].reason = NoneS
Emitted == {emitted_from[k] : k \in 1..Len(emitted_from)}
HasAsin(i) == Truthy(Get(raw_items[i].asin))
\* Records i and j carry the same asin, whatever the case of its letters.
SameAsin(i, j) ==
    HasAsin(i) /\ HasAsin(j) /\ Lower(raw_items[i].asin) = Lower(raw_items[j].asin)

\* C8: every record is accounted for exactly once: after every pass of the
\* loop, and when clean_products returns, the accepted items plus all the
\* counts of the reject histogram ('duplicate' included) are the records
\* handled, and at the return these are all the records of the batch.
C8_AcceptedPlusRejectsIsProcessed ==
    /\ Len(cleaned) + SumOver(rejects, DOMAIN rejects) = idx
    /\ cpc = "returned" => idx = Len(raw_items)

\* A batch of three came out as one item, one duplicate and one record
\* rejected by a check.
C8_Witness ==
    /\ cpc = "returned"
    /\ Len(cleaned) = 1
    /\ CountOf(rejects, "duplicate") = 1
    /\ CountOf(rejects, "missing_price") = 1

\* C9: among the validated records with the same asin only the first in input
\* order is emitted; every later one is dropped and counted as 'duplicate'
\* (the duplicates counted are exactly the validated records not emitted).
C9_FirstOfAnAsinIsEmitted ==
    /\ \A j \in 1..idx :
          Validated(j) /\ HasAsin(j) =>
              (j \in Emitted <=> ~\E i \in 1..(j - 1) : Validated(i) /\ SameAsin(i, j))
    /\ \A a, b \in 1..Len(emitted_from) :
          a # b => ~SameAsin(emitted_from[a], emitted_from[b])
    /\ CountOf(rejects, "duplicate")
          = Cardinality({j \in 1..idx : Validated(j) /\ j \notin Emitted})

\* Two validated records with the same asin and different titles and images:
\* the first was emitted, the second counted as duplicate.
C9_Witness ==
    /\ cpc = "returned"
    /\ \E i, j \in 1..Len(raw_items) :
          /\ i < j
          /\ Validated(i) /\ Validated(j)
          /\ raw_items[i].asin = raw_items[j].asin /\ HasAsin(i)
          /\ raw_items[i].title # raw_items[j].title
          /\ i \in Emitted /\ j \notin Emitted
    /\ CountOf(rejects, "duplicate") >= 1

\* C10: of two validated records without asin whose emitted image_url is the
\* same, the second is rejected as duplicate, so no two items emitted for
\* records without asin have the same image_url, whether the URL came from
\* the images list or from the image_url field.
C10_SameImageUrlIsDuplicate ==
    \A a, b \in 1..Len(cleaned) :
        (a < b /\ ~HasAsin(emitted_from[a]) /\ ~HasAsin(emitted_from[b]))
            => cleaned[a].image_url # cleaned[b].image_url

\* ------------------------------------------------ claims: ids
\* The id that transform_item built for record i, before make_unique_id.
BaseIdOf(i) == TransformOfPool[raw_items[i]].item.id

\* The emitted items before cleaned[k], cleaned[k] included, whose record
\* produced the same base id.
SameBaseUpTo(k) ==
    {a \in 1..k : BaseIdOf(emitted_from[a]) = BaseIdOf(emitted_from[k])}

\* cleaned[k] shares its base id with no other emitted item.
CollidesWithNone(k) ==
    \A a \in 1..Len(cleaned) : a # k => BaseIdOf(emitted_from[a]) # BaseIdOf(emitted_from[k])

\* furn_{category}_{slugify(name)}[-{asin in lower case}] for the item it
\* and its raw record r.
DocumentedId(it, r) ==
    "furn_" \o it.category \o "_" \o slugify(it.name)
        \o (IF Truthy(Get(r.asin)) THEN "-" \o Lower(r.asin) ELSE "")

\* C11: the id of an emitted item that collides with no other item is exactly
\* furn_{category}_{slugify(name)}, followed by -{asin in lower case} when the
\* record has an asin, and nothing else.
C11_IdIsCategorySlugAsin ==
    \A k \in 1..Len(cleaned) :
        CollidesWithNone(k) => cleaned[k].id = DocumentedId(cleaned[k], raw_items[emitted_from[k]])

\* The suffix of the n-th item of a base id.
CollisionSuffix(n) == <<"", "-v02", "-v03", "-v04", "-v05", "-v06">>[n]

\* C12: of the accepted records that produce the same base id the first keeps
\* the base id and the n-th (n >= 2) is emitted with the suffix -v02, -v03,
\* ..., in input order.
C12_NthCollisionGetsSuffix ==
    \A k \in 1..Len(cleaned) :
        cleaned[k].id = BaseIdOf(emitted_from[k]) \o CollisionSuffix(Cardinality(SameBaseUpTo(k)))

\* Three accepted records with one base id came out with the base id, -v02
\* and -v03.
C12_Witness ==
    /\ cpc = "returned"
    /\ Len(cleaned) = 3
    /\ Cardinality(SameBaseUpTo(3)) = 3
    /\ cleaned[2].id = cleaned[1].id \o "-v02"
    /\ cleaned[3].id = cleaned[1].id \o "-v03"

\* ------------------------------------------------ claims: category
\* The title of r has a banned keyword as a word, in any letter case.
TitleHasBanned(r) ==
    \E b \in 1..Len(BANNED_TITLE_KEYWORDS) : SearchWord(BANNED_TITLE_KEYWORDS[b], Lower(r.title))

\* The title or a category hint of r matches an override or a category
\* keyword.
MatchesOtherwise(r) ==
    \/ \E o \in 1..Len(CLEAN_CATEGORY_OVERRIDES) :
          SearchWord(CLEAN_CATEGORY_OVERRIDES[o][1], Lower(r.title))
    \/ FirstKeywordCategory(Lower(r.title), LowerAll(r.categories)) # NoneS

\* C13: a record whose title contains a banned keyword is rejected with
\* reason category_filter, also when the title or the category hints match
\* an override or a category keyword.
C13_BannedTitleIsCategoryFilter ==
    (gpc = "returned" /\ TitleHasBanned(raw_record))
        => (transformed.reason = "category_filter" /\ transformed.item = NoItem)

\* 'Storage Bench Pillow' with the hint 'Sofa' matches the override bench and
\* the keyword sofa, and was rejected as category_filter.
C13_Witness ==
    /\ gpc = "returned"
    /\ raw_record.title = "Storage Bench Pillow"
    /\ raw_record.categories = <<"Sofas & Couches", "Sofa">>
    /\ MatchesOtherwise(raw_record)
    /\ transformed.reason = "category_filter"

\* ------------------------------------------------ claims: dimensions
\* The case (units, labels) that the dimension string of r was built from.
DimTexts == {DimText(c[1], c[2]) : c \in DimCases}
DimCaseOf(r) == CHOOSE c \in DimCases : DimText(c[1], c[2]) = r.product_dimensions

\* Segment i (48, 24 or 18) with the given unit, in hundredths of an inch,
\* rounded to two decimals: 1 cm = 0.393701 in, 1 mm = 0.0393701 in, 1 ft = 12 in.
InchesOfSegment(i, unit) ==
    CASE unit \in {"", " in", "\""} -> <<4800, 2400, 1800>>[i]
      [] unit = " cm" -> <<1890, 945, 709>>[i]
      [] unit = " mm" -> <<189, 94, 71>>[i]
      [] unit = " ft" -> <<57600, 28800, 21600>>[i]

AxisOfLabel(label) ==
    CASE label \in {" D", " L"} -> "d"
      [] label = " W" -> "w"
      [] label = " H" -> "h"
      [] OTHER -> ""

\* The labeled segments name distinct axes.
DistinctAxes(labels) ==
    \A i, j \in 1..3 : (i # j /\ labels[i] # "" /\ labels[j] # "") =>
        AxisOfLabel(labels[i]) # AxisOfLabel(labels[j])

\* The segment that each axis gets: a labeled segment goes to its axis, and
\* the k-th unlabeled segment to the k-th axis of d, w, h that no label names.
SegmentOfAxis(labels, axis) ==
    LET IsFree(a) == \A i \in 1..3 : AxisOfLabel(labels[i]) # a
        IsUnlabeled(i) == labels[i] = ""
        free == SelectSeq(<<"d", "w", "h">>, IsFree)
        unlabeled == SelectSeq(<<1, 2, 3>>, IsUnlabeled)
    IN  IF \E i \in 1..3 : AxisOfLabel(labels[i]) = axis
        THEN CHOOSE i \in 1..3 : AxisOfLabel(labels[i]) = axis
        ELSE unlabeled[CHOOSE k \in 1..Len(free) : free[k] = axis]

ExpectedDimensions(c) ==
    [ok |-> TRUE,
     w |-> InchesOfSegment(SegmentOfAxis(c[2], "w"), c[1][SegmentOfAxis(c[2], "w")]),
     d |-> InchesOfSegment(SegmentOfAxis(c[2], "d"), c[1][SegmentOfAxis(c[2], "d")]),
     h |-> InchesOfSegment(SegmentOfAxis(c[2], "h"), c[1][SegmentOfAxis(c[2], "h")])]

Unlabeled == <<"", "", "">>

\* C14: a dimension string of three segments without axis labels,
\* 'a x b x c', is parsed positionally as d = a, w = b, h = c, each converted
\* to inches; '48 x 24 x 18 in' gives w = 24, d = 48, h = 18.
C14_UnlabeledIsDepthWidthHeight ==
    (gpc = "returned" /\ raw_record \in DimPool /\ DimCaseOf(raw_record)[2] = Unlabeled)
        => /\ transformed.reason = NoneS
           /\ transformed.item.dimensions_in.d = InchesOfSegment(1, DimCaseOf(raw_record)[1][1])
           /\ transformed.item.dimensions_in.w = InchesOfSegment(2, DimCaseOf(raw_record)[1][2])
           /\ transformed.item.dimensions_in.h = InchesOfSegment(3, DimCaseOf(raw_record)[1][3])
           /\ (raw_record.product_dimensions = "48 x 24 x 18 in"
                 => transformed.item.dimensions_in = [ok |-> TRUE, w |-> 2400, d |-> 4800, h |-> 1800])

\* '48 cm x 24 cm x 18 cm' came out as d = 18.90, w = 9.45, h = 7.09.
C14_Witness ==
    /\ gpc = "returned"
    /\ raw_record.product_dimensions = "48 cm x 24 cm x 18 cm"
    /\ transformed.item.dimensions_in = [ok |-> TRUE, w |-> 945, d |-> 1890, h |-> 709]

\* C15: a three-segment string in which k distinct axes are labeled and the
\* other 3 - k segments are not resolves all three axes: the unlabeled
\* segments go, in their order, to the axes still empty in the order d, w, h,
\* and the record is not rejected as missing_dimensions.
C15_UnlabeledFillEmptyAxes ==
    (gpc = "returned" /\ raw_record \in DimPool /\ DistinctAxes(DimCaseOf(raw_record)[2]))
        => /\ transformed.reason # "missing_dimensions"
           /\ transformed.item.dimensions_in = ExpectedDimensions(DimCaseOf(raw_record))

\* C26: each segment is converted with the unit written in that segment
\* alone: a segment without a unit is taken as inches even when another
\* segment of the string carries ft, cm or mm, so '4 x 2 x 1 ft' gives d = 4,
\* w = 2, h = 12 (and not 48, 24, 12).
C26_UnitOfEachSegmentAlone ==
    /\ (gpc = "returned" /\ raw_record \in DimPool /\ transformed.reason = NoneS) =>
           LET units == DimCaseOf(raw_record)[1]
               labels == DimCaseOf(raw_record)[2]
               OwnUnit(v) == \E i \in 1..3 : v = InchesOfSegment(i, units[i])
           IN  /\ OwnUnit(transformed.item.dimensions_in.d)
               /\ OwnUnit(transformed.item.dimensions_in.w)
               /\ OwnUnit(transformed.item.dimensions_in.h)
               /\ labels = Unlabeled =>
                      transformed.item.dimensions_in =
                          [ok |-> TRUE, d |-> InchesOfSegment(1, units[1]),
                           w |-> InchesOfSegment(2, units[2]),
                           h |-> InchesOfSegment(3, units[3])]
    /\ (gpc = "returned" /\ raw_record.product_dimensions = "4 x 2 x 1 ft") =>
           /\ transformed.reason = NoneS
           /\ transformed.item.dimensions_in = [ok |-> TRUE, d |-> 400, w |-> 200, h |-> 1200]

\* '48 x 24 x 18 ft' came out as d = 48, w = 24, h = 216.
C26_Witness ==
    /\ gpc = "returned"
    /\ raw_record.product_dimensions = "48 x 24 x 18 ft"
    /\ transformed.item.dimensions_in = [ok |-> TRUE, d |-> 4800, w |-> 2400, h |-> 21600]

\* ------------------------------------------------ claims: price
\* r passes every check of transform_item other than the price check.
ValidButForPrice(r) == FailedChecks(r) \subseteq {7}

\* C16: a price given as a string with a currency symbol, "$249.99", parses
\* to its numeric value: the otherwise valid record is accepted with
\* price = 249.99 and is not rejected as missing_price.
C16_CurrencySymbolPriceParses ==
    (gpc = "returned" /\ raw_record.final_price = JString("$249.99")
                      /\ ValidButForPrice(raw_record))
        => (transformed.reason = NoneS /\ transformed.item.price = Num(24999))

\* C17: every item emitted by clean_products has a price > 0 (a record whose
\* price is zero, negative or unparsable is rejected and never emitted).
C17_EmittedPriceIsPositive ==
    \A k \in 1..Len(cleaned) : cleaned[k].price.k = "num" /\ cleaned[k].price.v > 0

\* ------------------------------------------------ claims: complete items
\* The string v is present and not null.
NonNull(v) == v \notin {NoneS, Absent}

\* Every schema field of the item is present with a non-null value, the
\* dimensions are three numbers and the lists are not empty.
IsComplete(it) ==
    /\ NonNull(it.id) /\ NonNull(it.name) /\ NonNull(it.brand) /\ NonNull(it.category)
    /\ it.roomTypes # <<>>
    /\ it.price # NoneV
    /\ NonNull(it.currency)
    /\ NonNull(it.buy_url) /\ NonNull(it.image_url)
    /\ it.dimensions_in.ok
    /\ it.materials # <<>> /\ it.colors # <<>> /\ it.style_tags # <<>>
    /\ NonNull(it.description) /\ NonNull(it.scraped_at)

\* C18: no partial item is emitted: every item of the output has every
\* schema field present with a non-null value and no key outside the
\* allow-list, and a record that fails a check contributes no item.
C18_NoPartialItem ==
    /\ \A k \in 1..Len(cleaned) :
          IsComplete(cleaned[k]) /\ DOMAIN cleaned[k] \subseteq ALLOWED_FIELDS
    /\ \A i \in 1..idx : ~Validated(i) => i \notin Emitted

\* ------------------------------------------------ claims: required fields
\* r passes every check before the one of buy_url and scraped_at.
PassesEarlierChecks(r) == FailedChecks(r) \subseteq {10}

\* C19: a record that passes the earlier checks and has no buy_url and/or no
\* scraped_at is rejected with a reason that names every missing field and
\* only those.
C19_ReasonNamesMissingFields ==
    (gpc = "returned" /\ PassesEarlierChecks(raw_record)) =>
        LET no_url == ~Truthy(Get(raw_record.url))
            no_time == ~Truthy(Get(raw_record.timestamp))
        IN  /\ (no_url /\ no_time) => transformed.reason = "missing_buy_url-scraped_at"
            /\ (no_url /\ ~no_time) => transformed.reason = "missing_buy_url"
            /\ (~no_url /\ no_time) => transformed.reason = "missing_scraped_at"
            /\ (~no_url /\ ~no_time) => transformed.reason = NoneS
            /\ (no_url \/ no_time) => transformed.item = NoItem

\* A record without url and with an empty timestamp, valid otherwise, was
\* rejected with the composite reason.
C19_Witness ==
    /\ gpc = "returned"
    /\ FailedChecks(raw_record) = {10}
    /\ raw_record.url = Absent /\ raw_record.timestamp = ""
    /\ transformed.reason = "missing_buy_url-scraped_at"

\* ------------------------------------------------ claims: totality
\* C20: record-level transformation is total: whatever the types and values
\* of the fields of the records of a batch, clean_products raises no
\* exception; every record is accepted or counted under one reason and the
\* loop goes on to the next record.
C20_NoExceptionEscapes ==
    raw_shape = "list" =>
        /\ cpc # "raised"
        /\ Len(cleaned) + SumOver(rejects, DOMAIN rejects) = idx

\* ------------------------------------------------ claims: invalid input
\* C21: raw_items that is not a list (a mapping, null) is fatal for the call
\* and surfaced as an error: clean_products never returns a result, an empty
\* one in particular, for such input.
C21_NotAListIsAnError ==
    raw_shape # "list" => cpc # "returned"

\* ------------------------------------------------ claims: re-normalization
\* The fields of an item whose values re-normalization is to keep.
ValueFields(item) ==
    <<item.name, item.category, item.price, item.dimensions_in, item.materials,
      item.colors, item.style_tags, item.description, item.image_url, item.buy_url,
      item.scraped_at>>

\* C22: clean_products given its own output accepts every item again and
\* leaves the value of name, category, price, dimensions_in, materials,
\* colors, style_tags, description, image_url, buy_url and scraped_at as it was.
C22_RenormalizationKeepsValues ==
    (cpc = "returned" /\ previous # <<>>) =>
        /\ Len(cleaned) = Len(previous[1])
        /\ \A k \in 1..Len(cleaned) : ValueFields(cleaned[k]) = ValueFields(previous[1][k])

\* ------------------------------------------------ claims: processing order
\* The validated records of the batch, and those with reason as their reason.
ValidatedRecords == {i \in 1..Len(raw_items) : Validated(i)}
RejectedFor(reason) ==
    {i \in 1..Len(raw_items) : TransformOfPool[raw_items[i]].reason = reason}

\* No two validated records of the batch share a dedup key or a base id.
NoSharedKeyOrBaseId ==
    \A i, j \in ValidatedRecords :
        i # j =>
            /\ ~(Truthy(KeyOfPool[raw_items[i]]) /\ KeyOfPool[raw_items[i]] = KeyOfPool[raw_items[j]])
            /\ BaseIdOf(i) # BaseIdOf(j)

\* C23: the order of the batch does not affect the output set: when no two
\* validated records share a dedup key or a base id, the items emitted and
\* the reject histogram are what the records of the batch give taken as a
\* bag, an expression in which their order does not appear, so every
\* permutation of the batch emits the same set of items and the same
\* histogram.
C23_OrderDoesNotAffectOutput ==
    (cpc = "returned" /\ raw_shape = "list" /\ NoSharedKeyOrBaseId) =>
        /\ {cleaned[k] : k \in 1..Len(cleaned)} =
               {TransformOfPool[raw_items[i]].item : i \in ValidatedRecords}
        /\ Len(cleaned) = Cardinality(ValidatedRecords)
        /\ DOMAIN rejects = {TransformOfPool[raw_items[i]].reason :
                                i \in (1..Len(raw_items)) \ ValidatedRecords}
        /\ \A reason \in DOMAIN rejects : rejects[reason] = Cardinality(RejectedFor(reason))

\* A batch of three different records, two with an asin each and one
\* rejected by a check, has been processed.
C23_Witness ==
    /\ cpc = "returned" /\ raw_shape = "list" /\ NoSharedKeyOrBaseId
    /\ Len(raw_items) = 3
    /\ Len(cleaned) = 2
    /\ cleaned[1].id # cleaned[2].id
    /\ \A k \in 1..2 : HasAsin(emitted_from[k])
    /\ emitted_from = <<2, 3>>
    /\ CountOf(rejects, "missing_price") = 1

\* ------------------------------------------------ claims: style tags
\* The first n entries of a list.
FirstN(list, n) == SubSeq(list, 1, IF Len(list) < n THEN Len(list) ELSE n)

\* The tags as documented: the style detail, then the first three of the
\* features under 120 characters; the raw categories when that gives none.
DocumentedStyleTags(r) ==
    LET style_text == extract_detail(r.product_details, <<"style", "theme", "pattern">>)
        tags == normalize_list(
                    (IF Truthy(style_text) THEN split_on_delimiters(style_text) ELSE <<>>)
                    \o FlattenSplit(FirstN(SelectSeq(r.features, ShortFeature), 3)))
    IN  IF tags = <<>> THEN normalize_list(r.categories) ELSE tags

\* C24: style tags are the style/theme detail plus the first 3 features
\* shorter than 120 characters, in list order, a longer entry being skipped
\* without using up one of the three; the raw categories are the tags only
\* when that yields nothing, and the record is rejected as
\* missing_style_tags only when they are empty too.
C24_StyleTagsFromFirstThreeShort ==
    (gpc = "returned" /\ FailedChecks(raw_record) \cap (1..5) = {}) =>
        /\ (transformed.reason = "missing_style_tags") <=> (DocumentedStyleTags(raw_record) = <<>>)
        /\ transformed.reason = NoneS =>
               transformed.item.style_tags = DocumentedStyleTags(raw_record)

\* ------------------------------------------------ claims: fallback code
\* C25: without a client (dummy key, package missing, client initialisation
\* failed) or when the API call raises, generate_furniture_code returns, for
\* any furniture type, known or not, code that starts with the marker
\* "// FALLBACK_CODE" and contains "function createFurniture" and
\* "THREE.Group".
C25_FallbackWithoutClientOrOnError ==
    (xpc = "returned" /\ (~client \/ api_outcome = "<raise>")) =>
        /\ MatchAt(generated, "// FALLBACK_CODE", 1)
        /\ Find(generated, "function createFurniture", 1) # 0
        /\ Find(generated, "THREE.Group", 1) # 0

\* The API call raised on a furniture type without a static model.
C25_Witness ==
    /\ xpc = "returned"
    /\ client /\ api_outcome = "<raise>"
    /\ furniture_type = "spaceship"
    /\ MatchAt(generated, "// FALLBACK_CODE\nfunction createFurniture", 1)

\* ------------------------------------------------ claims: dedup registry
\* C27: deduplication is decided among the records that passed validation:
\* after every pass of the loop the registered keys are the non-empty dedup
\* keys of the accepted records; a record rejected by a check registers no
\* key and is counted under its own reason, never as 'duplicate'; a valid
\* record after an invalid one with the same asin is accepted.
C27_KeysOfAcceptedRecordsOnly ==
    raw_shape = "list" =>
        /\ seen_keys = {KeyOfPool[raw_items[emitted_from[k]]] : k \in 1..Len(emitted_from)} \ {""}
        /\ CountOf(rejects, "duplicate")
              = Cardinality({j \in 1..idx : Validated(j) /\ j \notin Emitted})
        /\ \A j \in 1..idx :
              (/\ Validated(j) /\ HasAsin(j)
               /\ \E i \in 1..(j - 1) : ~Validated(i) /\ SameAsin(i, j)
               /\ ~\E i \in 1..(j - 1) : Validated(i) /\ SameAsin(i, j))
                  => j \in Emitted

\* An invalid record and then a valid one with the same asin: the first was
\* counted as missing_price, the second emitted and its key registered.
C27_Witness ==
    /\ cpc = "returned" /\ raw_shape = "list"
    /\ Len(raw_items) = 2
    /\ ~Validated(1) /\ Validated(2) /\ SameAsin(1, 2)
    /\ emitted_from = <<2>>
    /\ rejects = [r \in {"missing_price"} |-> 1]
    /\ seen_keys = {"b00oak"}

\* ------------------------------------------------ claims: unique ids
\* The ids a call of make_unique_id can meet in this batch: the emitted ids
\* and each of them with a collision suffix appended.
IdsAround == seen_ids \cup {i \o "-v02" : i \in seen_ids} \cup {i \o "-v03" : i \in seen_ids}

\* C28: the ids of the items emitted by one clean_products call are pairwise
\* distinct and are exactly the ids in seen_ids, and make_unique_id returns an
\* id outside the seen set it is given, also when the base id is itself an id
\* that an earlier collision produced (seen sets: the ids of the call, these
\* with their suffixed ids, and the latter less one id).
C28_EmittedIdsPairwiseDistinct ==
    raw_shape = "list" =>
        /\ \A a, b \in 1..Len(cleaned) : a # b => cleaned[a].id # cleaned[b].id
        /\ seen_ids = {cleaned[k].id : k \in 1..Len(cleaned)}
        /\ cpc = "returned" =>
              \A base_id \in IdsAround :
                 \A seen \in {seen_ids, IdsAround} \cup {IdsAround \ {i} : i \in IdsAround} :
                    make_unique_id(base_id, seen) \notin seen

\* Two accepted records with one base id came out under two different ids,
\* both of them in seen_ids.
C28_Witness ==
    /\ cpc = "returned" /\ raw_shape = "list"
    /\ Len(cleaned) = 2
    /\ BaseIdOf(emitted_from[1]) = BaseIdOf(emitted_from[2])
    /\ cleaned[1].id # cleaned[2].id
    /\ seen_ids = {cleaned[1].id, cleaned[2].id}

\* ------------------------------------------------ claims: training jobs
\* C29: once POST /api/train has answered with job id J and 'started', every
\* later GET /api/training-status/J finds the job (200 with its record),
\* never 404, whatever the training thread has done so far.
C29_StartedJobIsFound ==
    (reply.op = "status" /\ reply.after_started) => reply.code = 200

\* C30: in every step, a status that is 'completed' or 'failed' stays what it
\* is, and after the step the status of a job is 'running' whenever one of
\* its threads has created the record and its training has not ended.
C30_RunningThenFinal ==
    [][/\ \A j \in DOMAIN training_jobs :
             training_jobs[j].status \in {"completed", "failed"}
                => training_jobs'[j].status = training_jobs[j].status
       /\ \A t \in 1..Len(threads') :
             threads'[t].pc = "train" => training_jobs'[threads'[t].job_id].status = "running"
      ]_vars

====
